---- MODULE Spec2Model ----
(***************************************************************************)
(* Model of the GitHub client wrappers: the GitHubAPIWrapper (branch       *)
(* context, file operations, branch creation) and the GitHubIssuesLoader   *)
(* (Link-header pagination).  Go strings are TLA+ strings; the string      *)
(* functions of the Go standard library the code calls are defined below   *)
(* character by character.  A backquote of a Go format string is written   *)
(* as a single quote, because a TLA+ string cannot hold a backquote.       *)
(***************************************************************************)
EXTENDS Integers, Sequences, FiniteSets, TLC

VARIABLES
    activeBranch,      \* GitHubAPIWrapper.activeBranch
    githubBaseBranch,  \* GitHubAPIWrapper.githubBaseBranch
    refs,              \* remote: the branch names that exist
    files,             \* remote: <<branch, path>> -> content of the file
    pc,                \* position of the wrapper call in progress, or "idle"
    loc,               \* local variables of the wrapper call in progress
    ret,               \* what the last wrapper call returned
    call,              \* the last wrapper call: operation, argument, observations
    nReq,              \* remote requests issued by the last wrapper call
    nWrite,            \* remote write requests issued by the last wrapper call
    calls,             \* wrapper calls made so far
    others,            \* writes by other clients of the remote so far
    owner,             \* GitHubAPIWrapper.owner
    repoName,          \* GitHubAPIWrapper.repoName
    l,                 \* the GitHubIssuesLoader
    pages,             \* remote: the pages of the issue list
    linkStyle,         \* remote: the order of the links in a Link header
    lpc,               \* position of Load: "idle", "loop" or "done"
    url,               \* Load's url
    allDocs,           \* Load's allDocs
    lret,              \* what Load returned
    requested,         \* the URLs Load requested, in order
    failedAt,          \* the number of requests made when one failed, or 0
    linkSegs,          \* the links a Link header was written from
    linkHeader,        \* the Link header given to getNextURL
    linkResult,        \* what getNextURL returned
    pulls,             \* remote: the pull requests created
    comments,          \* remote: the issue comments created
    newArgs,           \* the arguments and environment of a constructor call
    newRet,            \* what the constructor returned
    toolArgs,          \* the tool call in sight: its tool, mode and input
    toolRet,           \* what the tool call returned
    toolReqs,          \* the remote requests the tool call issued, in order
    cbLog              \* the callbacks invoked and the requests issued, in order

ovars == <<owner, repoName>>

wvars == <<activeBranch, githubBaseBranch, refs, files, pc, loc, ret, call,
           nReq, nWrite, calls, others, ovars>>

lvars == <<l, pages, linkStyle, lpc, url, allDocs, lret, requested, failedAt>>

kvars == <<linkSegs, linkHeader, linkResult>>

xvars == <<pulls, comments>>

nvars == <<newArgs, newRet>>

tvars == <<toolArgs, toolRet, toolReqs, cbLog>>

vars == <<wvars, xvars, lvars, kvars, nvars, tvars>>

(***************************************************************************)
(* Bounds of the model.                                                    *)
(***************************************************************************)
MaxCalls == 2
MaxOthers == 1
MaxRuns == 1

(***************************************************************************)
(* Go's strings package.                                                   *)
(***************************************************************************)
Min(S) == CHOOSE m \in S : \A n \in S : m <= n

\* s[lo:hi] of Go, for 0 <= lo <= hi <= len(s)
Slice(s, lo, hi) == SubSeq(s, lo + 1, hi)

\* s[lo:hi] panics outside these limits
SliceOK(s, lo, hi) == 0 <= lo /\ lo <= hi /\ hi <= Len(s)

Index(s, sub) ==
    LET hits == {i \in 0..(Len(s) - Len(sub)) : Slice(s, i, i + Len(sub)) = sub}
    IN  IF hits = {} THEN -1 ELSE Min(hits)

Contains(s, sub) == Index(s, sub) >= 0

RECURSIVE InsertBetween(_, _)
InsertBetween(s, new) ==
    IF s = "" THEN new
    ELSE new \o Slice(s, 0, 1) \o InsertBetween(Slice(s, 1, Len(s)), new)

RECURSIVE ReplaceAll(_, _, _)
ReplaceAll(s, old, new) ==
    IF old = "" THEN InsertBetween(s, new)
    ELSE LET i == Index(s, old)
         IN  IF i = -1 THEN s
             ELSE Slice(s, 0, i) \o new
                  \o ReplaceAll(Slice(s, i + Len(old), Len(s)), old, new)

RECURSIVE Split(_, _)
Split(s, sep) ==
    LET i == Index(s, sep)
    IN  IF i = -1 THEN <<s>>
        ELSE <<Slice(s, 0, i)>> \o Split(Slice(s, i + Len(sep), Len(s)), sep)

\* strings.SplitN(s, sep, 2)
SplitN2(s, sep) ==
    LET i == Index(s, sep)
    IN  IF i = -1 THEN <<s>>
        ELSE <<Slice(s, 0, i), Slice(s, i + Len(sep), Len(s))>>

RECURSIVE Join(_, _)
Join(parts, sep) ==
    IF Len(parts) = 0 THEN ""
    ELSE IF Len(parts) = 1 THEN parts[1]
    ELSE parts[1] \o sep \o Join(Tail(parts), sep)

SpaceChars == {" ", "\n", "\t", "\r"}

RECURSIVE TrimLeft(_, _)
TrimLeft(s, cutset) ==
    IF s # "" /\ Slice(s, 0, 1) \in cutset
    THEN TrimLeft(Slice(s, 1, Len(s)), cutset) ELSE s

RECURSIVE TrimRight(_, _)
TrimRight(s, cutset) ==
    IF s # "" /\ Slice(s, Len(s) - 1, Len(s)) \in cutset
    THEN TrimRight(Slice(s, 0, Len(s) - 1), cutset) ELSE s

Trim(s, cutset) == TrimRight(TrimLeft(s, cutset), cutset)

TrimSpace(s) == Trim(s, SpaceChars)

\* the nil error
Nil == "<nil>"


(***************************************************************************)
(* The remote repository, as the wrapper sees it through go-github.  A     *)
(* request fails with an error text or succeeds; every request may fail    *)
(* for a reason of its own (network, rate limit, server error).            *)
(***************************************************************************)
TransientErr == "503 Service Unavailable"
NotFoundErr == "404 Not Found"
RefExistsErr == "422 Reference already exists"
ShaMismatchErr == "409 does not match"
ShaMissingErr == "422 sha wasn't supplied"

NoFile == "<no file>"

\* the blob SHA of a file is a hash of its content
Sha(content) == "sha1(" \o content \o ")"

FileAt(branch, path) ==
    IF <<branch, path>> \in DOMAIN files THEN files[<<branch, path>>] ELSE NoFile

\* Repositories.GetContents(path, Ref: branch)
GetContents(branch, path) ==
    {[err |-> TransientErr, content |-> "", sha |-> ""]}
    \cup (IF FileAt(branch, path) = NoFile
          THEN {[err |-> NotFoundErr, content |-> "", sha |-> ""]}
          ELSE {[err |-> Nil, content |-> FileAt(branch, path),
                 sha |-> Sha(FileAt(branch, path))]})

\* Repositories.ListBranches with nil options returns the first page only
ListPageSize == 30

\* Git.GetRef("refs/heads/" + branch)
GetRef(branch) ==
    {TransientErr} \cup (IF branch \in refs THEN {Nil} ELSE {NotFoundErr})

\* Git.CreateRef("refs/heads/" + name) at the head of the base branch
CreateRef(name) ==
    {TransientErr} \cup (IF name \in refs THEN {RefExistsErr} ELSE {Nil})

\* the files of a branch created at the head of from
BranchFiles(name, from) ==
    LET paths == {k[2] : k \in {d \in DOMAIN files : d[1] = from}}
        keys == DOMAIN files \cup {<<name, p>> : p \in paths}
    IN  [k \in keys |-> IF k[1] = name THEN files[<<from, k[2]>>] ELSE files[k]]

WriteFile(branch, path, content) ==
    [k \in DOMAIN files \cup {<<branch, path>>} |->
        IF k = <<branch, path>> THEN content ELSE files[k]]

RemoveFile(branch, path) ==
    [k \in DOMAIN files \ {<<branch, path>>} |-> files[k]]

(***************************************************************************)
(* Inputs of the wrapper operations.                                       *)
(***************************************************************************)
BaseBranchName == "main"
BranchInputs == {"main", "p", "nope"}
ProposedBranchNames == {"p"}

\* fmt.Sprintf("%s_v%d", proposedBranchName, n)
VersionedName(proposedBranchName, n) == proposedBranchName \o "_v" \o ToString(n)

\* CreateBranch gives up after this many attempts
MaxAttempts == 1000

\* a repository in which the proposed name and all its versions are taken
TakenNames(p) == {p} \cup {VersionedName(p, n) : n \in 1..MaxAttempts}

NoLoc == [op |-> "none"]
NoRet == [result |-> "", err |-> Nil, panic |-> FALSE]
Return(result, err) == [result |-> result, err |-> err, panic |-> FALSE]
Panic == [result |-> "", err |-> Nil, panic |-> TRUE]

\* the switch of Run: the operation each mode name stands for
RunModes ==
    [get_issue |-> "GetIssue",
     get_pull_request |-> "GetPullRequest",
     get_issues |-> "GetIssues",
     comment_on_issue |-> "CommentOnIssue",
     create_file |-> "CreateFile",
     create_pull_request |-> "CreatePullRequest",
     read_file |-> "ReadFile",
     update_file |-> "UpdateFile",
     delete_file |-> "DeleteFile",
     list_open_pull_requests |-> "ListOpenPullRequests",
     list_files_in_main_branch |-> "ListFilesInMainBranch",
     list_files_in_bot_branch |-> "ListFilesInBotBranch",
     list_branches_in_repo |-> "ListBranchesInRepo",
     set_active_branch |-> "SetActiveBranch",
     create_branch |-> "CreateBranch",
     get_files_from_directory |-> "GetFilesFromDirectory",
     search_issues_and_prs |-> "SearchIssuesAndPRs",
     search_code |-> "SearchCode",
     get_latest_release |-> "GetLatestRelease",
     get_releases |-> "GetReleases",
     get_release |-> "GetRelease"]

\* a switch whose unknown modes fall into its get_issues case
DispatchFirstRead(mode) ==
    IF mode \in DOMAIN RunModes THEN RunModes[mode] ELSE "GetIssues"

\* the case of the switch a mode falls into
Dispatch(mode) == IF mode \in DOMAIN RunModes THEN RunModes[mode] ELSE "default"

\* the mode that reaches an operation through Run
ModeOf(op) ==
    IF \E m \in DOMAIN RunModes : RunModes[m] = op
    THEN CHOOSE m \in DOMAIN RunModes : RunModes[m] = op
    ELSE ""

NewCall(op, arg) ==
    [op |-> op, mode |-> ModeOf(op), arg |-> arg, active0 |-> activeBranch, refs0 |-> refs,
     files0 |-> files, lastErr |-> Nil, readOk |-> FALSE, readContent |-> "", sentSha |-> "",
     accepted |-> FALSE, overwritten |-> "", interfered |-> FALSE,
     listed |-> FALSE]

CanCall == pc = "idle" /\ calls < MaxCalls

(***************************************************************************)
(* SetActiveBranch                                                         *)
(***************************************************************************)
BranchListText == "[...]"

\* a listing that names every branch asked for
ListedAlways(branchName) == {TRUE}

\* whether the page of branches the remote returned names the branch
Listed(branchName) ==
    IF branchName \notin refs THEN {FALSE}
    ELSE IF Cardinality(refs) <= ListPageSize THEN {TRUE}
    ELSE {TRUE, FALSE}

SetActiveBranch(branchName) ==
    /\ CanCall
    /\ UNCHANGED <<xvars, lvars, kvars, nvars, tvars, ovars>>
    /\ calls' = calls + 1
    /\ nReq' = 1
    /\ nWrite' = 0
    /\ \E listErr \in {Nil, TransientErr} :
       \E listed \in Listed(branchName) :
        /\ call' = [NewCall("SetActiveBranch", branchName) EXCEPT
                        !.lastErr = listErr, !.listed = (listErr = Nil /\ listed)]
        /\ IF listErr # Nil
           THEN /\ ret' = Return("", "failed to list branches: " \o listErr)
                /\ UNCHANGED activeBranch
           ELSE IF ~listed
           THEN /\ ret' = Return("Error " \o branchName
                            \o " does not exist, in repo with current branches: "
                            \o BranchListText, Nil)
                /\ UNCHANGED activeBranch
           ELSE /\ activeBranch' = branchName
                /\ ret' = Return("Switched to branch '" \o branchName \o "'", Nil)
    /\ UNCHANGED <<githubBaseBranch, refs, files, pc, loc, others>>

(***************************************************************************)
(* CreateBranch                                                            *)
(***************************************************************************)
CreatedMsg(name) ==
    "Branch '" \o name \o "' created successfully, and set as current active branch."

UnableMsg(proposedBranchName) ==
    "Unable to create branch. At least 1000 branches exist with named derived from proposed_branch_name: '"
    \o proposedBranchName \o "'"

\* the suffix taken from the loop counter before its increment
NextBranchNameOffByOne(proposedBranchName, i) == VersionedName(proposedBranchName, i)

\* the name the loop tries after the conflict of iteration i
NextBranchName(proposedBranchName, i) == VersionedName(proposedBranchName, i + 1)

\* a loop that runs once more
LoopContinuesInclusive(i) == i <= MaxAttempts

\* the loop condition of CreateBranch
LoopContinues(i) == i < MaxAttempts

\* every failure taken for a name collision
IsConflictAlways(errText) == TRUE

\* the test that tells a name collision from any other failure
IsConflict(errText) == Contains(errText, "Reference already exists")

\* the call and its Git.GetRef of the base branch
CreateBranch(proposedBranchName) ==
    /\ CanCall
    /\ UNCHANGED <<xvars, lvars, kvars, nvars, tvars, ovars>>
    /\ calls' = calls + 1
    /\ nReq' = 1
    /\ nWrite' = 0
    /\ \E e \in GetRef(githubBaseBranch) :
        /\ call' = [NewCall("CreateBranch", proposedBranchName) EXCEPT !.lastErr = e]
        /\ IF e # Nil
           THEN /\ ret' = Return("", "failed to get base branch: " \o e)
                /\ UNCHANGED <<pc, loc>>
           ELSE /\ pc' = "CreateBranch_loop"
                /\ loc' = [op |-> "CreateBranch", proposedBranchName |-> proposedBranchName,
                           newBranchName |-> proposedBranchName, i |-> 0]
                /\ ret' = NoRet
    /\ UNCHANGED <<activeBranch, githubBaseBranch, refs, files, others>>

\* one iteration of the loop: a Git.CreateRef and what follows it
CreateBranchAttempt ==
    /\ pc = "CreateBranch_loop"
    /\ UNCHANGED <<xvars, lvars, kvars, nvars, tvars, ovars>>
    /\ nReq' = nReq + 1
    /\ nWrite' = nWrite + 1
    /\ \E e \in CreateRef(loc.newBranchName) :
        /\ call' = [call EXCEPT !.lastErr = e]
        /\ IF e = Nil
           THEN /\ refs' = refs \cup {loc.newBranchName}
                /\ files' = BranchFiles(loc.newBranchName, githubBaseBranch)
                /\ activeBranch' = loc.newBranchName
                /\ ret' = Return(CreatedMsg(loc.newBranchName), Nil)
                /\ pc' = "idle"
                /\ loc' = NoLoc
           ELSE IF IsConflict(e)
           THEN /\ IF LoopContinues(loc.i + 1)
                   THEN /\ pc' = "CreateBranch_loop"
                        /\ loc' = [loc EXCEPT
                                     !.newBranchName = NextBranchName(loc.proposedBranchName, loc.i),
                                     !.i = loc.i + 1]
                        /\ ret' = NoRet
                   ELSE /\ pc' = "idle"
                        /\ loc' = NoLoc
                        /\ ret' = Return(UnableMsg(loc.proposedBranchName), Nil)
                /\ UNCHANGED <<refs, files, activeBranch>>
           ELSE /\ ret' = Return("", "failed to create branch: " \o e)
                /\ pc' = "idle"
                /\ loc' = NoLoc
                /\ UNCHANGED <<refs, files, activeBranch>>
    /\ UNCHANGED <<githubBaseBranch, calls, others>>

(***************************************************************************)
(* ReadFile                                                                *)
(***************************************************************************)
\* what ReadFile returns for the outcome of its GetContents
ReadFileResult(out, filePath, branch) ==
    IF out.err # Nil
    THEN "File not found '" \o filePath \o "' on branch '" \o branch
         \o "'. Error: " \o out.err
    ELSE out.content

PathInputs == {"f"}

ReadFile(filePath) ==
    /\ CanCall
    /\ UNCHANGED <<xvars, lvars, kvars, nvars, tvars, ovars>>
    /\ calls' = calls + 1
    /\ nReq' = 1
    /\ nWrite' = 0
    /\ \E out \in GetContents(activeBranch, filePath) :
        /\ call' = [NewCall("ReadFile", filePath) EXCEPT !.lastErr = out.err]
        /\ ret' = Return(ReadFileResult(out, filePath, activeBranch), Nil)
    /\ UNCHANGED <<activeBranch, githubBaseBranch, refs, files, pc, loc, others>>

(***************************************************************************)
(* The protected-branch check of CreateFile, UpdateFile and DeleteFile     *)
(***************************************************************************)
\* the check left out
IsProtectedNever == FALSE

IsProtected == activeBranch = githubBaseBranch

ProtectedMsg ==
    "You're attempting to commit to the directly to the " \o githubBaseBranch
    \o " branch, which is protected. Please create a new branch and try again."

\* a call that returns before any remote request
ReturnAtOnce(op, arg, result) ==
    /\ calls' = calls + 1
    /\ call' = NewCall(op, arg)
    /\ nReq' = 0
    /\ nWrite' = 0
    /\ ret' = result
    /\ UNCHANGED <<activeBranch, githubBaseBranch, refs, files, pc, loc, others>>

(***************************************************************************)
(* CreateFile                                                              *)
(***************************************************************************)
CreateFileInputs == {"f\nab", "f"}

\* Repositories.CreateFile(path, content, Branch: branch), without a SHA
RemoteCreateFile(branch, path) ==
    {TransientErr} \cup (IF FileAt(branch, path) = NoFile THEN {Nil} ELSE {ShaMissingErr})

\* the call, up to and including the GetContents that looks for the file
CreateFile(fileQuery) ==
    /\ CanCall
    /\ UNCHANGED <<xvars, lvars, kvars, nvars, tvars, ovars>>
    /\ LET lines == SplitN2(fileQuery, "\n") IN
       IF IsProtected
       THEN ReturnAtOnce("CreateFile", fileQuery, Return(ProtectedMsg, Nil))
       ELSE IF Len(lines) < 2
       THEN ReturnAtOnce("CreateFile", fileQuery, Return("Invalid file format", Nil))
       ELSE /\ calls' = calls + 1
            /\ nReq' = 1
            /\ nWrite' = 0
            /\ \E out \in GetContents(activeBranch, lines[1]) :
                /\ call' = [NewCall("CreateFile", fileQuery) EXCEPT !.lastErr = out.err]
                /\ IF out.err = Nil
                   THEN /\ ret' = Return("File already exists at '" \o lines[1]
                                   \o "' on branch '" \o activeBranch
                                   \o "'. You must use 'update_file' to modify it.", Nil)
                        /\ UNCHANGED <<pc, loc>>
                   ELSE /\ pc' = "CreateFile_write"
                        /\ loc' = [op |-> "CreateFile", filePath |-> lines[1],
                                   fileContents |-> lines[2]]
                        /\ ret' = NoRet
            /\ UNCHANGED <<activeBranch, githubBaseBranch, refs, files, others>>

\* the Repositories.CreateFile request and the return
CreateFileWrite ==
    /\ pc = "CreateFile_write"
    /\ UNCHANGED <<xvars, lvars, kvars, nvars, tvars, ovars>>
    /\ nReq' = nReq + 1
    /\ nWrite' = nWrite + 1
    /\ pc' = "idle"
    /\ loc' = NoLoc
    /\ \E e \in RemoteCreateFile(activeBranch, loc.filePath) :
        /\ call' = [call EXCEPT !.lastErr = e, !.accepted = (e = Nil)]
        /\ IF e # Nil
           THEN /\ ret' = Return("Unable to make file due to error:\n" \o e, Nil)
                /\ UNCHANGED files
           ELSE /\ files' = WriteFile(activeBranch, loc.filePath, loc.fileContents)
                /\ ret' = Return("Created file " \o loc.filePath, Nil)
    /\ UNCHANGED <<activeBranch, githubBaseBranch, refs, calls, others>>


(***************************************************************************)
(* UpdateFile                                                              *)
(***************************************************************************)
UpdateFileInputs ==
    { "f\nOLD <<<<\na\n>>>> OLD\nNEW <<<<\nb\n>>>> NEW",
      "f\nOLD <<<<\nx\n>>>> OLD\nNEW <<<<\nb\n>>>> NEW",
      "f\nOLD <<<<\nf\n>>>> OLD\nNEW <<<<\nb\n>>>> NEW",
      "f\nOLD <<<<\na\n>>>> OLD",
      "f\n>>>> OLD\nOLD <<<<\nNEW <<<<\nb\n>>>> NEW" }

\* len("OLD <<<<"), the offset added to the index of an opening marker
MarkerLen == 8

\* the file path, the text after it and the four marker positions of a query
ParseUpdate(fileQuery) ==
    LET lines == Split(fileQuery, "\n")
        content == Join(Tail(lines), "\n")
    IN  [filePath |-> lines[1],
         content |-> content,
         oldStartIdx |-> Index(content, "OLD <<<<"),
         oldEndIdx |-> Index(content, ">>>> OLD"),
         newStartIdx |-> Index(content, "NEW <<<<"),
         newEndIdx |-> Index(content, ">>>> NEW")]

\* a test that looks for the OLD markers only
MarkersMissingOldOnly(q) == q.oldStartIdx = -1 \/ q.oldEndIdx = -1

MarkersMissing(q) ==
    q.oldStartIdx = -1 \/ q.oldEndIdx = -1 \/ q.newStartIdx = -1 \/ q.newEndIdx = -1

\* the two slice expressions are within their limits
BlocksSliceOK(q) ==
    /\ SliceOK(q.content, q.oldStartIdx + MarkerLen, q.oldEndIdx)
    /\ SliceOK(q.content, q.newStartIdx + MarkerLen, q.newEndIdx)

OldContent(q) == TrimSpace(Slice(q.content, q.oldStartIdx + MarkerLen, q.oldEndIdx))
NewContent(q) == TrimSpace(Slice(q.content, q.newStartIdx + MarkerLen, q.newEndIdx))

NotUpdatedMsg ==
    "File content was not updated because old content was not found. It may be helpful to use the read_file action to get the current file contents."

\* Repositories.UpdateFile and Repositories.DeleteFile with the SHA of the blob replaced
RemoteWriteWithSha(branch, path, sha) ==
    {TransientErr}
    \cup (IF FileAt(branch, path) = NoFile THEN {NotFoundErr}
          ELSE IF Sha(FileAt(branch, path)) # sha THEN {ShaMismatchErr}
          ELSE {Nil})

\* the call, up to and including the ReadFile of the current content
UpdateFile(fileQuery) ==
    /\ CanCall
    /\ UNCHANGED <<xvars, lvars, kvars, nvars, tvars, ovars>>
    /\ LET q == ParseUpdate(fileQuery) IN
       IF IsProtected
       THEN ReturnAtOnce("UpdateFile", fileQuery, Return(ProtectedMsg, Nil))
       ELSE IF MarkersMissing(q)
       THEN ReturnAtOnce("UpdateFile", fileQuery,
                Return("Invalid update format: missing OLD <<<< ... >>>> OLD or NEW <<<< ... >>>> NEW markers", Nil))
       ELSE IF ~BlocksSliceOK(q)
       THEN ReturnAtOnce("UpdateFile", fileQuery, Panic)
       ELSE /\ calls' = calls + 1
            /\ nReq' = 1
            /\ nWrite' = 0
            /\ \E out \in GetContents(activeBranch, q.filePath) :
                LET currentContent == ReadFileResult(out, q.filePath, activeBranch)
                    updatedContent == ReplaceAll(currentContent, OldContent(q), NewContent(q))
                IN  /\ call' = [NewCall("UpdateFile", fileQuery) EXCEPT
                                    !.lastErr = out.err,
                                    !.readOk = (out.err = Nil),
                                    !.readContent = currentContent]
                    /\ IF currentContent = updatedContent
                       THEN /\ ret' = Return(NotUpdatedMsg, Nil)
                            /\ UNCHANGED <<pc, loc>>
                       ELSE /\ pc' = "UpdateFile_sha"
                            /\ loc' = [op |-> "UpdateFile", filePath |-> q.filePath,
                                       updatedContent |-> updatedContent, sha |-> ""]
                            /\ ret' = NoRet
            /\ UNCHANGED <<activeBranch, githubBaseBranch, refs, files, others>>

\* the GetContents that fetches the SHA
UpdateFileSha ==
    /\ pc = "UpdateFile_sha"
    /\ UNCHANGED <<xvars, lvars, kvars, nvars, tvars, ovars>>
    /\ nReq' = nReq + 1
    /\ \E out \in GetContents(activeBranch, loc.filePath) :
        /\ call' = [call EXCEPT !.lastErr = out.err]
        /\ IF out.err # Nil
           THEN /\ ret' = Return("Failed to get file SHA: " \o out.err, Nil)
                /\ pc' = "idle"
                /\ loc' = NoLoc
           ELSE /\ pc' = "UpdateFile_write"
                /\ loc' = [loc EXCEPT !.sha = out.sha]
                /\ ret' = NoRet
    /\ UNCHANGED <<activeBranch, githubBaseBranch, refs, files, nWrite, calls, others>>

\* the Repositories.UpdateFile request and the return
UpdateFileWrite ==
    /\ pc = "UpdateFile_write"
    /\ UNCHANGED <<xvars, lvars, kvars, nvars, tvars, ovars>>
    /\ nReq' = nReq + 1
    /\ nWrite' = nWrite + 1
    /\ pc' = "idle"
    /\ loc' = NoLoc
    /\ \E e \in RemoteWriteWithSha(activeBranch, loc.filePath, loc.sha) :
        /\ call' = [call EXCEPT !.lastErr = e, !.sentSha = loc.sha,
                                 !.accepted = (e = Nil),
                                 !.overwritten = FileAt(activeBranch, loc.filePath)]
        /\ IF e # Nil
           THEN /\ ret' = Return("Unable to update file due to error:\n" \o e, Nil)
                /\ UNCHANGED files
           ELSE /\ files' = WriteFile(activeBranch, loc.filePath, loc.updatedContent)
                /\ ret' = Return("Updated file " \o loc.filePath, Nil)
    /\ UNCHANGED <<activeBranch, githubBaseBranch, refs, calls, others>>

(***************************************************************************)
(* DeleteFile                                                              *)
(***************************************************************************)
\* the call, up to and including the GetContents that fetches the SHA
DeleteFile(filePath) ==
    /\ CanCall
    /\ UNCHANGED <<xvars, lvars, kvars, nvars, tvars, ovars>>
    /\ IF IsProtected
       THEN ReturnAtOnce("DeleteFile", filePath, Return(ProtectedMsg, Nil))
       ELSE /\ calls' = calls + 1
            /\ nReq' = 1
            /\ nWrite' = 0
            /\ \E out \in GetContents(activeBranch, filePath) :
                /\ call' = [NewCall("DeleteFile", filePath) EXCEPT !.lastErr = out.err]
                /\ IF out.err # Nil
                   THEN /\ ret' = Return("Unable to delete file due to error:\n" \o out.err, Nil)
                        /\ UNCHANGED <<pc, loc>>
                   ELSE /\ pc' = "DeleteFile_write"
                        /\ loc' = [op |-> "DeleteFile", filePath |-> filePath, sha |-> out.sha]
                        /\ ret' = NoRet
            /\ UNCHANGED <<activeBranch, githubBaseBranch, refs, files, others>>

\* the Repositories.DeleteFile request and the return
DeleteFileWrite ==
    /\ pc = "DeleteFile_write"
    /\ UNCHANGED <<xvars, lvars, kvars, nvars, tvars, ovars>>
    /\ nReq' = nReq + 1
    /\ nWrite' = nWrite + 1
    /\ pc' = "idle"
    /\ loc' = NoLoc
    /\ \E e \in RemoteWriteWithSha(activeBranch, loc.filePath, loc.sha) :
        /\ call' = [call EXCEPT !.lastErr = e, !.accepted = (e = Nil)]
        /\ IF e # Nil
           THEN /\ ret' = Return("Unable to delete file due to error:\n" \o e, Nil)
                /\ UNCHANGED files
           ELSE /\ files' = RemoveFile(activeBranch, loc.filePath)
                /\ ret' = Return("Deleted file " \o loc.filePath, Nil)
    /\ UNCHANGED <<activeBranch, githubBaseBranch, refs, calls, others>>

(***************************************************************************)
(* Another client of the remote changes a file.                            *)
(***************************************************************************)
OtherContents == {"c"}

OtherWriter ==
    /\ others < MaxOthers
    /\ UNCHANGED <<xvars, lvars, kvars, nvars, tvars, ovars>>
    /\ others' = others + 1
    /\ \E k \in DOMAIN files : \E c \in OtherContents \ {files[k]} :
        files' = [files EXCEPT ![k] = c]
    /\ call' = [call EXCEPT !.interfered = TRUE]
    /\ UNCHANGED <<activeBranch, githubBaseBranch, refs, pc, loc, ret, nReq, nWrite, calls>>

(***************************************************************************)
(* GitHubIssuesLoader: the JSON of an issue and parseIssue                 *)
(***************************************************************************)
\* JSON values: a string, null, an object, or a key that is absent
JString(v) == [t |-> "string", v |-> v]
JNull == [t |-> "null", v |-> ""]
JObject == [t |-> "object", v |-> ""]
JAbsent == [t |-> "absent", v |-> ""]
JNumber == [t |-> "number", v |-> ""]

\* getString(data, key)
getString(data, key) == IF data[key].t = "string" THEN data[key].v ELSE ""

\* a key that is present counts, whatever its value
IsPullRequestKeyPresent(issue) == issue["pull_request"].t # "absent"

\* issue["pull_request"] != nil
IsPullRequest(issue) == issue["pull_request"].t \notin {"absent", "null"}

\* a document whose content is the body, empty or not
parseIssueBodyOnly(issue) ==
    [PageContent |-> getString(issue, "body"),
     Metadata |-> [title |-> getString(issue, "title"),
                   is_pull_request |-> IsPullRequest(issue)]]

parseIssue(issue) ==
    LET body == getString(issue, "body")
    IN  [PageContent |-> IF body = "" THEN getString(issue, "title") ELSE body,
         Metadata |-> [title |-> getString(issue, "title"),
                       is_pull_request |-> IsPullRequest(issue)]]

(***************************************************************************)
(* buildURL, for a loader with only State, Page and PerPage set            *)
(***************************************************************************)
\* a *int is nil or points to an int
NilInt == <<>>
IntPtr(n) == <<n>>

\* url.Values.Encode writes the parameters sorted by key
buildURL(ld) ==
    LET baseURL == ld.GitHubAPIURL \o "/repos/" \o ld.Repo \o "/issues"
        params ==
            (IF ld.Page # NilInt THEN <<"page=" \o ToString(ld.Page[1])>> ELSE <<>>)
            \o (IF ld.PerPage # NilInt
                THEN <<"per_page=" \o ToString(ld.PerPage[1])>> ELSE <<>>)
            \o (IF ld.State # "" THEN <<"state=" \o ld.State>> ELSE <<>>)
    IN  IF Len(params) > 0 THEN baseURL \o "?" \o Join(params, "&") ELSE baseURL

(***************************************************************************)
(* getNextURL                                                              *)
(***************************************************************************)
\* a "rel" that is not asked for
IsNextLinkRelLast(parts) == Len(parts) = 2 /\ Contains(parts[2], "rel=\"last\"")

\* the test getNextURL applies to the parts of one link
IsNextLink(parts) == Len(parts) = 2 /\ Contains(parts[2], "rel=\"next\"")

RECURSIVE FirstNextLink(_)
FirstNextLink(links) ==
    IF Len(links) = 0 THEN ""
    ELSE LET parts == Split(TrimSpace(Head(links)), ";")
         IN  IF IsNextLink(parts)
             THEN Trim(TrimSpace(parts[1]), {"<", ">"})
             ELSE FirstNextLink(Tail(links))

getNextURL(header) ==
    IF header = "" THEN "" ELSE FirstNextLink(Split(header, ","))

(***************************************************************************)
(* The remote issue list: GitHub serves it page by page and names the      *)
(* other pages in the Link header of each response.                        *)
(***************************************************************************)
MaxPages == 3

PageURL(k) == "https://api.github.com/repositories/1/issues?state=open&page=" \o ToString(k)

Link(k, rel) == "<" \o PageURL(k) \o ">; rel=\"" \o rel \o "\""

\* the links GitHub sends with page k of n, in one of two orders
LinksOf(k, n, style) ==
    LET prev == IF k > 1 THEN <<Link(k - 1, "prev")>> ELSE <<>>
        next == IF k < n THEN <<Link(k + 1, "next")>> ELSE <<>>
        last == IF k < n THEN <<Link(n, "last")>> ELSE <<>>
        first == IF k > 1 THEN <<Link(1, "first")>> ELSE <<>>
    IN  IF style = "prev-next-last-first"
        THEN prev \o next \o last \o first
        ELSE first \o last \o prev \o next

LinkStyles == {"prev-next-last-first", "first-last-prev-next"}

\* the page a URL asks for: the page parameter, or the first page
PageIndex(u) ==
    IF \E k \in 1..(MaxPages + 2) : u = PageURL(k) \/ Contains(u, "?page=" \o ToString(k) \o "&")
    THEN CHOOSE k \in 1..(MaxPages + 2) :
            u = PageURL(k) \/ Contains(u, "?page=" \o ToString(k) \o "&")
    ELSE 1

\* the response to GET u when nothing fails
Response(u) ==
    LET k == PageIndex(u)
    IN  IF k \in 1..Len(pages)
        THEN [issues |-> pages[k], link |-> Join(LinksOf(k, Len(pages), linkStyle), ", ")]
        ELSE [issues |-> <<>>, link |-> ""]

\* how one request of Load ends
Outcomes == {"ok", "context canceled", "transport error", "status", "decode"}

\* the error Load returns for a request that did not end well
LoadError(outcome) ==
    IF outcome \in {"context canceled", "transport error"}
    THEN "failed to fetch issues: " \o outcome
    ELSE IF outcome = "status" THEN "GitHub API error: 500 Internal Server Error"
    ELSE "failed to decode response: unexpected end of JSON input"

(***************************************************************************)
(* GitHubIssuesLoader.Load                                                 *)
(***************************************************************************)
\* auto-pagination left on although page bounds are set
PaginationSetNever(ld) == FALSE

\* specific pagination is set
PaginationSet(ld) == ld.Page # NilInt \/ ld.PerPage # NilInt

\* the documents Load keeps of the issues of one response
RECURSIVE KeptDocs(_, _)
KeptDocs(issues, includePRs) ==
    IF Len(issues) = 0 THEN <<>>
    ELSE LET doc == parseIssue(Head(issues))
         IN  (IF ~includePRs /\ doc.Metadata.is_pull_request THEN <<>> ELSE <<doc>>)
             \o KeptDocs(Tail(issues), includePRs)

\* the documents returned with an error, were the pages loaded so far kept
FailureDocsPartial(docs) == docs

\* the documents returned with an error: return nil, err
FailureDocs(docs) == <<>>

LoadCall ==
    /\ lpc = "idle"
    /\ lpc' = "loop"
    /\ url' = buildURL(l)
    /\ allDocs' = <<>>
    /\ UNCHANGED <<l, pages, linkStyle, lret, requested, failedAt, wvars, xvars, kvars, nvars, tvars>>

\* one iteration of the loop: a GET and what follows it
LoadIteration ==
    /\ lpc = "loop"
    /\ url # ""
    /\ requested' = Append(requested, url)
    /\ \E outcome \in Outcomes :
        IF outcome # "ok"
        THEN /\ lret' = [docs |-> FailureDocs(allDocs), err |-> LoadError(outcome)]
             /\ failedAt' = Len(requested) + 1
             /\ lpc' = "done"
             /\ UNCHANGED <<url, allDocs>>
        ELSE LET resp == Response(url)
                 docs == allDocs \o KeptDocs(resp.issues, l.IncludePRs)
                 next == IF PaginationSet(l) THEN "" ELSE getNextURL(resp.link)
             IN  /\ allDocs' = docs
                 /\ url' = next
                 /\ IF PaginationSet(l) \/ next = ""
                    THEN /\ lpc' = "done"
                         /\ lret' = [docs |-> docs, err |-> Nil]
                    ELSE /\ lpc' = "loop"
                         /\ lret' = lret
                 /\ UNCHANGED failedAt
    /\ UNCHANGED <<l, pages, linkStyle, wvars, xvars, kvars, nvars, tvars>>

\* an issue of the remote list; every second one has an empty body
Issue(n, isPR) ==
    [title |-> JString("t" \o ToString(n)),
     body |-> IF n % 2 = 0 THEN JNull ELSE JString("b" \o ToString(n)),
     pull_request |-> IF isPR THEN JObject ELSE JAbsent]

PaginationInputs ==
    { [Page |-> NilInt, PerPage |-> NilInt],
      [Page |-> IntPtr(1), PerPage |-> IntPtr(2)],
      [Page |-> IntPtr(2), PerPage |-> IntPtr(2)],
      [Page |-> IntPtr(2), PerPage |-> NilInt] }

LoaderInit ==
    /\ \E pg \in PaginationInputs : \E inc \in BOOLEAN :
         l = [Repo |-> "o/r", GitHubAPIURL |-> "https://api.github.com",
              State |-> "open", IncludePRs |-> inc,
              Page |-> pg.Page, PerPage |-> pg.PerPage]
    /\ \E n \in 1..MaxPages : \E prAt \in 0..2 :
         pages = [k \in 1..n |->
                    <<Issue(2 * k - 1, prAt = 1), Issue(2 * k, prAt = 2)>>]
    /\ linkStyle \in LinkStyles
    /\ lpc = "idle"
    /\ url = ""
    /\ allDocs = <<>>
    /\ lret = [docs |-> <<>>, err |-> Nil]
    /\ requested = <<>>
    /\ failedAt = 0

\* the loader left aside
LoaderIdle ==
    /\ l = [Repo |-> "o/r", GitHubAPIURL |-> "https://api.github.com",
            State |-> "open", IncludePRs |-> TRUE, Page |-> NilInt, PerPage |-> NilInt]
    /\ pages = <<>>
    /\ linkStyle = "prev-next-last-first"
    /\ lpc = "done"
    /\ url = ""
    /\ allDocs = <<>>
    /\ lret = [docs |-> <<>>, err |-> Nil]
    /\ requested = <<>>
    /\ failedAt = 0

(***************************************************************************)
(* getNextURL on Link headers written from a list of links, well formed    *)
(* or not.                                                                 *)
(***************************************************************************)
MaxLinks == 2

LinkForms == {"plain", "no brackets", "two params", "no params"}

LinkInputs ==
    [url : {"u1", "u2"}, rel : {"next", "prev"}, form : LinkForms]

RenderLink(k) ==
    IF k.form = "plain" THEN "<" \o k.url \o ">; rel=\"" \o k.rel \o "\""
    ELSE IF k.form = "no brackets" THEN k.url \o "; rel=\"" \o k.rel \o "\""
    ELSE IF k.form = "two params"
    THEN "<" \o k.url \o ">; rel=\"" \o k.rel \o "\"; title=\"t\""
    ELSE "<" \o k.url \o ">"

RECURSIVE RenderLinks(_)
RenderLinks(links) ==
    IF Len(links) = 0 THEN ""
    ELSE IF Len(links) = 1 THEN RenderLink(links[1])
    ELSE RenderLink(links[1]) \o ", " \o RenderLinks(Tail(links))

LinkInit ==
    /\ \E n \in 0..MaxLinks : linkSegs \in [1..n -> LinkInputs]
    /\ linkHeader = RenderLinks(linkSegs)
    /\ linkResult = "<not called>"

LinkIdle ==
    /\ linkSegs = <<>>
    /\ linkHeader = ""
    /\ linkResult = ""

CallGetNextURL ==
    /\ linkResult = "<not called>"
    /\ linkResult' = getNextURL(linkHeader)
    /\ UNCHANGED <<linkSegs, linkHeader, wvars, xvars, lvars, nvars, tvars>>

(***************************************************************************)
(* strconv.Atoi and strconv.Itoa                                           *)
(***************************************************************************)
Digits == {"0", "1", "2", "3", "4", "5", "6", "7", "8", "9"}

RECURSIVE AllDigits(_)
AllDigits(s) ==
    IF Len(s) = 0 THEN TRUE
    ELSE Slice(s, 0, 1) \in Digits /\ AllDigits(Slice(s, 1, Len(s)))

\* the digits of s, after an optional sign
Unsigned(s) ==
    IF Len(s) > 0 /\ Slice(s, 0, 1) \in {"+", "-"} THEN Slice(s, 1, Len(s)) ELSE s

\* an Atoi that takes every string for a number
AtoiOKAlways(s) == TRUE

DigitValue(c) == IF c \in Digits THEN CHOOSE d \in 0..9 : ToString(d) = c ELSE 0

\* the digits without their leading zeros
RECURSIVE StripZeros(_)
StripZeros(s) ==
    IF Len(s) > 0 /\ Slice(s, 0, 1) = "0" THEN StripZeros(Slice(s, 1, Len(s))) ELSE s

\* a <= b for digit strings of one length
RECURSIVE DigitsLeq(_, _)
DigitsLeq(a, b) ==
    IF Len(a) = 0 THEN TRUE
    ELSE LET x == DigitValue(Slice(a, 0, 1))
             y == DigitValue(Slice(b, 0, 1))
         IN  x < y \/ (x = y /\ DigitsLeq(Slice(a, 1, Len(a)), Slice(b, 1, Len(b))))

\* the value is within the 64-bit int: no ErrRange from strconv
FitsInt(s) ==
    LET d == StripZeros(Unsigned(s))
        limit == IF Len(s) > 0 /\ Slice(s, 0, 1) = "-"
                 THEN "9223372036854775808" ELSE "9223372036854775807"
    IN  Len(d) < Len(limit) \/ (Len(d) = Len(limit) /\ DigitsLeq(d, limit))

\* err == nil of strconv.Atoi(s)
AtoiOK(s) == Len(Unsigned(s)) > 0 /\ AllDigits(Unsigned(s)) /\ FitsInt(s)

RECURSIVE DigitsValue(_, _)
DigitsValue(s, acc) ==
    IF Len(s) = 0 THEN acc
    ELSE DigitsValue(Slice(s, 1, Len(s)), 10 * acc + DigitValue(Slice(s, 0, 1)))

\* the int of strconv.Atoi(s) when err == nil
Atoi(s) ==
    IF Len(s) > 0 /\ Slice(s, 0, 1) = "-"
    THEN 0 - DigitsValue(Unsigned(s), 0)
    ELSE DigitsValue(Unsigned(s), 0)

(***************************************************************************)
(* The issues and pull requests of the remote repository.                  *)
(***************************************************************************)
ExistingIssues == {7}
ExistingPulls == {8}
PullExistsErr == "422 A pull request already exists"

\* Issues.Get, Issues.ListComments, Issues.CreateComment of issue number n
IssueRequest(n) ==
    {TransientErr} \cup (IF n \in ExistingIssues THEN {Nil} ELSE {NotFoundErr})

\* PullRequests.Get of pull request number n
PullRequest(n) ==
    {TransientErr} \cup (IF n \in ExistingPulls THEN {Nil} ELSE {NotFoundErr})

\* PullRequests.Create from head into base
PullCreate(head, base) ==
    {TransientErr}
    \cup (IF \E p \in pulls : p.head = head /\ p.base = base
          THEN {PullExistsErr} ELSE {Nil})

\* the number the remote gives the next pull request
NextPullNumber == 9 + Cardinality(pulls)

(***************************************************************************)
(* Run: the default case, get_issue and get_pull_request                   *)
(***************************************************************************)
UnknownModeInputs == {"", "Create_File", "get_issue "}
QueryInputs == {"", "q"}

\* default: return "", fmt.Errorf("invalid mode: %s", mode)
RunInvalidMode(mode, query) ==
    /\ CanCall
    /\ Dispatch(mode) = "default"
    /\ UNCHANGED <<xvars, lvars, kvars, nvars, tvars, ovars>>
    /\ calls' = calls + 1
    /\ call' = [NewCall("Run", query) EXCEPT !.mode = mode]
    /\ nReq' = 0
    /\ nWrite' = 0
    /\ ret' = Return("", "invalid mode: " \o mode)
    /\ UNCHANGED <<activeBranch, githubBaseBranch, refs, files, pc, loc, others>>

NumberInputs == {"7", "9", "7a", ""}

\* the comments of an issue as GetIssue and GetPullRequest write them
CommentsJSON(n) == IF \E c \in comments : c[1] = n THEN "[...]" ELSE "null"

\* json.Marshal of the map GetIssue returns: keys in sorted order
IssueJSON(n) ==
    "{\"body\":\"b\",\"comments\":\"" \o CommentsJSON(n) \o "\",\"number\":"
    \o ToString(n) \o ",\"opened_by\":\"u\",\"title\":\"t\"}"

\* case "get_issue": Atoi, GetIssue (Issues.Get, Issues.ListComments), Marshal
RunGetIssue(query) ==
    /\ CanCall
    /\ UNCHANGED <<xvars, lvars, kvars, nvars, tvars, ovars>>
    /\ calls' = calls + 1
    /\ nWrite' = 0
    /\ IF ~AtoiOK(query)
       THEN /\ call' = NewCall("GetIssue", query)
            /\ nReq' = 0
            /\ ret' = Return("", "invalid issue number: " \o query)
       ELSE \E e1 \in IssueRequest(Atoi(query)) : \E e2 \in IssueRequest(Atoi(query)) :
            IF e1 # Nil
            THEN /\ call' = [NewCall("GetIssue", query) EXCEPT !.lastErr = e1]
                 /\ nReq' = 1
                 /\ ret' = Return("", "failed to get issue: " \o e1)
            ELSE /\ call' = [NewCall("GetIssue", query) EXCEPT !.lastErr = e2]
                 /\ nReq' = 2
                 /\ ret' = IF e2 # Nil
                           THEN Return("", "failed to get comments: " \o e2)
                           ELSE Return(IssueJSON(Atoi(query)), Nil)
    /\ UNCHANGED <<activeBranch, githubBaseBranch, refs, files, pc, loc, others>>

\* json.Marshal of the map GetPullRequest returns; the comments and the
\* commits are left out when their requests fail
PullJSON(n, withComments, withCommits) ==
    "{\"body\":\"b\""
    \o (IF withComments THEN ",\"comments\":\"" \o CommentsJSON(n) \o "\"" ELSE "")
    \o (IF withCommits THEN ",\"commits\":\"[...]\"" ELSE "")
    \o ",\"number\":\"" \o ToString(n) \o "\",\"title\":\"t\"}"

\* case "get_pull_request": Atoi, GetPullRequest (PullRequests.Get,
\* Issues.ListComments, PullRequests.ListCommits), Marshal
RunGetPullRequest(query) ==
    /\ CanCall
    /\ UNCHANGED <<xvars, lvars, kvars, nvars, tvars, ovars>>
    /\ calls' = calls + 1
    /\ nWrite' = 0
    /\ IF ~AtoiOK(query)
       THEN /\ call' = NewCall("GetPullRequest", query)
            /\ nReq' = 0
            /\ ret' = Return("", "invalid PR number: " \o query)
       ELSE \E e1 \in PullRequest(Atoi(query)) :
            \E e2 \in {Nil, TransientErr} : \E e3 \in {Nil, TransientErr} :
            IF e1 # Nil
            THEN /\ call' = [NewCall("GetPullRequest", query) EXCEPT !.lastErr = e1]
                 /\ nReq' = 1
                 /\ ret' = Return("", "failed to get pull request: " \o e1)
            ELSE /\ call' = [NewCall("GetPullRequest", query) EXCEPT !.lastErr = e3]
                 /\ nReq' = 3
                 /\ ret' = Return(PullJSON(Atoi(query), e2 = Nil, e3 = Nil), Nil)
    /\ UNCHANGED <<activeBranch, githubBaseBranch, refs, files, pc, loc, others>>

(***************************************************************************)
(* CommentOnIssue                                                          *)
(***************************************************************************)
CommentInputs == {"7\n\nhi", "7\nhi", "seven\n\nhi", "9\n\nhi"}

CommentOnIssue(commentQuery) ==
    /\ CanCall
    /\ UNCHANGED <<lvars, kvars, nvars, tvars, ovars>>
    /\ calls' = calls + 1
    /\ LET parts == SplitN2(commentQuery, "\n\n") IN
       IF Len(parts) # 2
       THEN /\ call' = NewCall("CommentOnIssue", commentQuery)
            /\ nReq' = 0
            /\ nWrite' = 0
            /\ ret' = Return("Invalid comment format", Nil)
            /\ UNCHANGED comments
       ELSE IF ~AtoiOK(parts[1])
       THEN /\ call' = NewCall("CommentOnIssue", commentQuery)
            /\ nReq' = 0
            /\ nWrite' = 0
            /\ ret' = Return("Invalid issue number: " \o parts[1], Nil)
            /\ UNCHANGED comments
       ELSE \E e \in IssueRequest(Atoi(parts[1])) :
            /\ call' = [NewCall("CommentOnIssue", commentQuery) EXCEPT !.lastErr = e]
            /\ nReq' = 1
            /\ nWrite' = 1
            /\ IF e # Nil
               THEN /\ ret' = Return("Unable to make comment due to error:\n" \o e, Nil)
                    /\ UNCHANGED comments
               ELSE /\ comments' = comments \cup {<<Atoi(parts[1]), parts[2]>>}
                    /\ ret' = Return("Commented on issue " \o ToString(Atoi(parts[1])), Nil)
    /\ UNCHANGED <<activeBranch, githubBaseBranch, refs, files, pc, loc, others, pulls>>

(***************************************************************************)
(* CreatePullRequest                                                       *)
(***************************************************************************)
PullInputs == {"T\n\nB", "T", "T\nB"}

NoPullMsg ==
    "Cannot make a pull request because commits are already in the main or master branch."

\* body: lines[2:] joined when there are more than two lines, else empty
PullBody(lines) ==
    IF Len(lines) > 2 THEN Join(SubSeq(lines, 3, Len(lines)), "\n") ELSE ""

CreatePullRequest(prQuery) ==
    /\ CanCall
    /\ UNCHANGED <<lvars, kvars, nvars, tvars, ovars>>
    /\ calls' = calls + 1
    /\ LET lines == Split(prQuery, "\n") IN
       IF githubBaseBranch = activeBranch
       THEN /\ call' = NewCall("CreatePullRequest", prQuery)
            /\ nReq' = 0
            /\ nWrite' = 0
            /\ ret' = Return(NoPullMsg, Nil)
            /\ UNCHANGED pulls
       ELSE IF Len(lines) < 1
       THEN /\ call' = NewCall("CreatePullRequest", prQuery)
            /\ nReq' = 0
            /\ nWrite' = 0
            /\ ret' = Return("Invalid PR query format", Nil)
            /\ UNCHANGED pulls
       ELSE \E e \in PullCreate(activeBranch, githubBaseBranch) :
            /\ call' = [NewCall("CreatePullRequest", prQuery) EXCEPT !.lastErr = e]
            /\ nReq' = 1
            /\ nWrite' = 1
            /\ IF e # Nil
               THEN /\ ret' = Return("Unable to make pull request due to error:\n" \o e, Nil)
                    /\ UNCHANGED pulls
               ELSE /\ pulls' = pulls \cup {[number |-> NextPullNumber,
                                             title |-> lines[1], body |-> PullBody(lines),
                                             head |-> activeBranch,
                                             base |-> githubBaseBranch]}
                    /\ ret' = Return("Successfully created PR number "
                                     \o ToString(NextPullNumber), Nil)
    /\ UNCHANGED <<activeBranch, githubBaseBranch, refs, files, pc, loc, others, comments>>

(***************************************************************************)
(* The modes that only read: listings, searches, releases.  Each makes     *)
(* read requests; the first one fails or succeeds, and the text of a       *)
(* successful result is not modelled further.                              *)
(***************************************************************************)
\* the modes whose operation returns a request failure as a Go error
HardFailModes ==
    {"get_issues", "list_open_pull_requests", "list_files_in_main_branch",
     "list_branches_in_repo"}

\* the modes whose operation returns a request failure as a result string
SoftFailModes ==
    {"list_files_in_bot_branch", "get_files_from_directory", "search_issues_and_prs",
     "search_code", "get_latest_release", "get_releases", "get_release"}

ReadOnlyMode(mode, query) ==
    /\ CanCall
    /\ ModeOf(Dispatch(mode)) \in HardFailModes \cup SoftFailModes
    /\ UNCHANGED <<xvars, lvars, kvars, nvars, tvars, ovars>>
    /\ calls' = calls + 1
    /\ nReq' = 1
    /\ nWrite' = 0
    /\ \E e \in {Nil, TransientErr} :
        /\ call' = [NewCall(Dispatch(mode), query) EXCEPT !.mode = mode, !.lastErr = e]
        /\ ret' = IF e = Nil THEN Return("<" \o ModeOf(Dispatch(mode)) \o ">", Nil)
                  ELSE IF ModeOf(Dispatch(mode)) \in HardFailModes
                  THEN Return("", "failed: " \o e)
                  ELSE Return("Failed: " \o e, Nil)
    /\ UNCHANGED <<activeBranch, githubBaseBranch, refs, files, pc, loc, others>>

(***************************************************************************)
(* NewGitHubAPIWrapper                                                     *)
(***************************************************************************)
NotCalled == [called |-> FALSE, ok |-> FALSE, err |-> Nil, obj |-> <<>>, nReq |-> 0]

\* return obj, nil after nReq remote requests
NewOK(obj, n) == [called |-> TRUE, ok |-> TRUE, err |-> Nil, obj |-> obj, nReq |-> n]

\* return nil, err after nReq remote requests
NewFail(err, n) == [called |-> TRUE, ok |-> FALSE, err |-> err, obj |-> <<>>, nReq |-> n]

\* no constructor call in sight
NewIdle ==
    /\ newArgs = [kind |-> "none"]
    /\ newRet = NotCalled

\* a field of the Config, or the fallback (environment, default) when empty
OrElse(field, envValue) == IF field = "" THEN envValue ELSE field

\* a check of the repository format passed by every string
RepoFormatOKAlways(repository) == TRUE

\* len(strings.Split(config.Repository, "/")) == 2
RepoFormatOK(repository) == Len(Split(repository, "/")) = 2

DefaultBranch == "main"

\* Repositories.Get(owner, repoName)
RepositoriesGet(ownerName, repo) ==
    {TransientErr} \cup (IF ownerName = "o" /\ repo = "r" THEN {Nil} ELSE {NotFoundErr})

WrapperConfigs ==
    [Repository : {"", "o/r", "bad", "a/b/c"}, AppID : {"", "1"},
     PrivateKey : {"", "k"}, ActiveBranch : {"", "p"}, GitHubBaseBranch : {""}]

WrapperEnvs ==
    [GITHUB_REPOSITORY : {"", "o/r"}, GITHUB_APP_ID : {"", "2"},
     GITHUB_APP_PRIVATE_KEY : {"", "ek"}]

NewGitHubAPIWrapper ==
    /\ newArgs.kind = "wrapper"
    /\ ~newRet.called
    /\ UNCHANGED <<newArgs, wvars, xvars, lvars, kvars, tvars>>
    /\ LET repository == OrElse(newArgs.config.Repository, newArgs.env.GITHUB_REPOSITORY)
           appID == OrElse(newArgs.config.AppID, newArgs.env.GITHUB_APP_ID)
           privateKey == OrElse(newArgs.config.PrivateKey,
                                 newArgs.env.GITHUB_APP_PRIVATE_KEY)
           parts == Split(repository, "/")
       IN  IF repository = ""
           THEN newRet' = NewFail("GITHUB_REPOSITORY is required", 0)
           ELSE IF appID = ""
           THEN newRet' = NewFail("GITHUB_APP_ID is required", 0)
           ELSE IF privateKey = ""
           THEN newRet' = NewFail("GITHUB_APP_PRIVATE_KEY is required", 0)
           ELSE IF ~RepoFormatOK(repository)
           THEN newRet' = NewFail("invalid repository format: " \o repository
                                  \o " (expected owner/repo)", 0)
           ELSE \E e \in RepositoriesGet(parts[1], parts[2]) :
                IF e # Nil
                THEN newRet' = NewFail("failed to get repository: " \o e, 1)
                ELSE newRet' = NewOK(
                        [owner |-> parts[1], repoName |-> parts[2],
                         activeBranch |-> OrElse(newArgs.config.ActiveBranch, DefaultBranch),
                         githubBaseBranch |->
                            OrElse(newArgs.config.GitHubBaseBranch, DefaultBranch),
                         appID |-> appID, privateKey |-> privateKey], 1)

(***************************************************************************)
(* NewGitHubIssuesLoader, NewGitHubFileLoader and their options            *)
(***************************************************************************)
MaxOpts == 2

IssuesLoaderOptions ==
    { [name |-> "WithAccessToken", v |-> "test-token"],
      [name |-> "WithIncludePRs", v |-> "false"],
      [name |-> "WithState", v |-> "closed"],
      [name |-> "WithPagination", v |-> "1,2"] }

FileLoaderOptions ==
    { [name |-> "WithFileAccessToken", v |-> "test-token"],
      [name |-> "WithBranch", v |-> "dev"] }

\* opt(loader)
ApplyOption(loader, opt) ==
    IF opt.name \in {"WithAccessToken", "WithFileAccessToken"}
    THEN [loader EXCEPT !.AccessToken = opt.v]
    ELSE IF opt.name = "WithIncludePRs" THEN [loader EXCEPT !.IncludePRs = FALSE]
    ELSE IF opt.name = "WithState" THEN [loader EXCEPT !.State = opt.v]
    ELSE IF opt.name = "WithPagination"
    THEN [loader EXCEPT !.Page = IntPtr(1), !.PerPage = IntPtr(2)]
    ELSE [loader EXCEPT !.Branch = opt.v]

\* for _, opt := range opts { opt(loader) }
RECURSIVE ApplyOptions(_, _)
ApplyOptions(loader, opts) ==
    IF Len(opts) = 0 THEN loader
    ELSE ApplyOptions(ApplyOption(loader, Head(opts)), Tail(opts))

TokenRequiredErr == "GITHUB_PERSONAL_ACCESS_TOKEN environment variable is required"

\* the token test of the constructors: made before the options are applied
TokenMissing(loader, opts) == loader.AccessToken = ""

\* the constructor, from the loader it starts with
NewLoader(loader) ==
    IF newArgs.repo = ""
    THEN newRet' = NewFail("repository cannot be empty", 0)
    ELSE IF TokenMissing(loader, newArgs.opts)
    THEN newRet' = NewFail(TokenRequiredErr, 0)
    ELSE newRet' = NewOK(ApplyOptions(loader, newArgs.opts), 0)

NewGitHubIssuesLoader ==
    /\ newArgs.kind = "issues"
    /\ ~newRet.called
    /\ UNCHANGED <<newArgs, wvars, xvars, lvars, kvars, tvars>>
    /\ NewLoader([Repo |-> newArgs.repo, AccessToken |-> newArgs.envToken,
                  GitHubAPIURL |-> "https://api.github.com", IncludePRs |-> TRUE,
                  State |-> "open", Page |-> NilInt, PerPage |-> NilInt])

NewGitHubFileLoader ==
    /\ newArgs.kind = "file"
    /\ ~newRet.called
    /\ UNCHANGED <<newArgs, wvars, xvars, lvars, kvars, tvars>>
    /\ NewLoader([Repo |-> newArgs.repo, AccessToken |-> newArgs.envToken,
                  GitHubAPIURL |-> "https://api.github.com", Branch |-> "main"])

\* the sequences of at most MaxOpts options
OptionLists(options) == UNION {[1..n -> options] : n \in 0..MaxOpts}

NewInit ==
    /\ newRet = NotCalled
    /\ \/ \E c \in WrapperConfigs : \E e \in WrapperEnvs :
            newArgs = [kind |-> "wrapper", config |-> c, env |-> e]
       \/ \E r \in {"", "owner/repo"} : \E t \in {"", "env-token"} :
          \E o \in OptionLists(IssuesLoaderOptions) :
            newArgs = [kind |-> "issues", repo |-> r, envToken |-> t, opts |-> o]
       \/ \E r \in {"", "owner/repo"} : \E t \in {"", "env-token"} :
          \E o \in OptionLists(FileLoaderOptions) :
            newArgs = [kind |-> "file", repo |-> r, envToken |-> t, opts |-> o]

(***************************************************************************)
(* GitHubAgentTool.preprocessInput                                         *)
(***************************************************************************)
\* strconv.Itoa(n)
Itoa(n) == ToString(n)

\* strings.Fields(s): the maximal runs of non-space characters
RECURSIVE FieldEnd(_, _)
FieldEnd(s, i) ==
    IF i < Len(s) /\ Slice(s, i, i + 1) \notin SpaceChars THEN FieldEnd(s, i + 1) ELSE i

RECURSIVE Fields(_)
Fields(s) ==
    LET t == TrimLeft(s, SpaceChars)
    IN  IF t = "" THEN <<>>
        ELSE <<Slice(t, 0, FieldEnd(t, 0))>> \o Fields(Slice(t, FieldEnd(t, 0), Len(t)))

\* the loop over the fields: the first one Atoi accepts, or the input
RECURSIVE FirstNumber(_, _)
FirstNumber(parts, input) ==
    IF Len(parts) = 0 THEN input
    ELSE IF AtoiOK(Head(parts)) THEN Itoa(Atoi(Head(parts)))
    ELSE FirstNumber(Tail(parts), input)

\* the modes whose case rewrites 'first line, newline, rest'
TwoPartModes == {"comment_on_issue", "create_pull_request"}

\* a rewrite that keeps the parts untrimmed
TwoPartsUntrimmed(parts) == parts[1] \o "\n\n" \o parts[2]

\* fmt.Sprintf("%s\n\n%s", TrimSpace(parts[0]), TrimSpace(parts[1]))
TwoParts(parts) == TrimSpace(parts[1]) \o "\n\n" \o TrimSpace(parts[2])

\* a preprocessing that looks at the whole input only
NumberOfWholeOnly(input) == IF AtoiOK(input) THEN Itoa(Atoi(input)) ELSE input

\* the case "get_issue", "get_pull_request"
NumberOf(input) ==
    IF AtoiOK(input) THEN Itoa(Atoi(input)) ELSE FirstNumber(Fields(input), input)

preprocessInput(mode, rawInput) ==
    LET input == TrimSpace(rawInput)
        parts == SplitN2(input, "\n")
    IN  IF mode \in {"get_issue", "get_pull_request"} THEN NumberOf(input)
        ELSE IF mode \in TwoPartModes
        THEN IF Len(parts) = 2 THEN TwoParts(parts) ELSE input
        ELSE input

PreprocessModes ==
    {"get_issue", "get_pull_request", "comment_on_issue", "create_pull_request",
     "create_file", "update_file", "read_file", ""}

PreprocessInputs ==
    { "42", "  456  ", "Issue number 123", "abc", "007", "+5", "-0", "#12 and 13",
      "99999999999999999999", "no 99999999999999999999 7", "", "  \n ",
      "42\nThis is a comment", " 42 \n hi \n", "Fix bug\nThis fixes the bug",
      "T\n\nB", "a\n", "12\n34" }

NoToolRet == [called |-> FALSE, result |-> "", err |-> Nil, panic |-> FALSE]
ToolReturn(result, err) == [called |-> TRUE, result |-> result, err |-> err, panic |-> FALSE]
ToolPanic == [called |-> TRUE, result |-> "", err |-> Nil, panic |-> TRUE]

\* no tool call in sight
ToolIdle ==
    /\ toolArgs = [kind |-> "none"]
    /\ toolRet = NoToolRet
    /\ toolReqs = <<>>
    /\ cbLog = <<>>

PreprocessInit ==
    /\ \E m \in PreprocessModes : \E i \in PreprocessInputs :
         toolArgs = [kind |-> "preprocess", mode |-> m, input |-> i]
    /\ toolRet = NoToolRet
    /\ toolReqs = <<>>
    /\ cbLog = <<>>

CallPreprocessInput ==
    /\ toolArgs.kind = "preprocess"
    /\ ~toolRet.called
    /\ toolRet' = ToolReturn(preprocessInput(toolArgs.mode, toolArgs.input), Nil)
    /\ UNCHANGED <<toolArgs, toolReqs, cbLog, wvars, xvars, lvars, kvars, nvars>>

(***************************************************************************)
(* The tools of tools/github: BaseTool and the Call of six of the tools.   *)
(* A tool talks to the remote through its own client, without a branch:    *)
(* its requests address the default branch.                                *)
(***************************************************************************)
\* strings.TrimPrefix(s, prefix)
TrimPrefix(s, prefix) ==
    IF Len(s) >= Len(prefix) /\ Slice(s, 0, Len(prefix)) = prefix
    THEN Slice(s, Len(prefix), Len(s)) ELSE s

\* a handler called whether or not one is set
HandlerSetAlways == TRUE

\* bt.callbacksHandler != nil
HandlerSet == toolArgs.handler

\* handleToolStart, handleToolEnd, handleToolError: the callback, if a handler is set
Callback(name) == IF HandlerSet THEN <<name>> ELSE <<>>

\* the requests as they stand in the order of events
RequestEvents(reqs) == [i \in 1..Len(reqs) |-> "request " \o reqs[i].req]

\* t.handleToolError(ctx, err); return "", err   after the requests reqs
ToolFail(reqs, err) ==
    /\ toolRet' = ToolReturn("", err)
    /\ toolReqs' = reqs
    /\ cbLog' = Callback("HandleToolStart") \o RequestEvents(reqs) \o Callback("HandleToolError")

\* t.handleToolEnd(ctx, result); return result, nil   after the requests reqs
ToolEnd(reqs, result) ==
    /\ toolRet' = ToolReturn(result, Nil)
    /\ toolReqs' = reqs
    /\ cbLog' = Callback("HandleToolStart") \o RequestEvents(reqs) \o Callback("HandleToolEnd")

\* a run-time panic after handleToolStart: Call does not return
ToolPanics(reqs) ==
    /\ toolRet' = ToolPanic
    /\ toolReqs' = reqs
    /\ cbLog' = Callback("HandleToolStart") \o RequestEvents(reqs)

Req(req, path) == [req |-> req, path |-> path]

\* Repositories.GetContents(path, nil): the root and every directory come
\* back without a file
ToolGetContents(path) ==
    {[err |-> TransientErr, file |-> FALSE, content |-> "", sha |-> ""]}
    \cup (IF path = ""
          THEN {[err |-> Nil, file |-> FALSE, content |-> "", sha |-> ""]}
          ELSE IF FileAt(BaseBranchName, path) = NoFile
          THEN {[err |-> NotFoundErr, file |-> FALSE, content |-> "", sha |-> ""]}
          ELSE {[err |-> Nil, file |-> TRUE, content |-> FileAt(BaseBranchName, path),
                 sha |-> Sha(FileAt(BaseBranchName, path))]})

ToolFrame == UNCHANGED <<toolArgs, activeBranch, githubBaseBranch, refs, pc, loc, ret, call,
                         nReq, nWrite, calls, others, ovars, lvars, kvars, nvars>>

IsToolCall(name) == toolArgs.kind = "tool" /\ toolArgs.tool = name /\ ~toolRet.called

ReadFileToolCall ==
    /\ IsToolCall("Read File")
    /\ ToolFrame
    /\ UNCHANGED <<files, pulls, comments>>
    /\ LET trimmed == TrimSpace(toolArgs.input)
           filePath == TrimPrefix(trimmed, "/")
           reqs == <<Req("GetContents", filePath)>>
       IN  IF trimmed = "" THEN ToolFail(<<>>, "file path cannot be empty")
           ELSE \E out \in ToolGetContents(filePath) :
                IF out.err # Nil
                THEN ToolFail(reqs, "failed to read file " \o filePath \o ": " \o out.err)
                ELSE IF ~out.file
                THEN ToolFail(reqs, "file " \o filePath \o " not found or is a directory")
                ELSE ToolEnd(reqs, "Contents of " \o filePath \o ":\n\n" \o out.content)

CreateFileToolCall ==
    /\ IsToolCall("Create File")
    /\ ToolFrame
    /\ UNCHANGED <<pulls, comments>>
    /\ LET parts == SplitN2(toolArgs.input, "\n\n")
           filePath == TrimPrefix(TrimSpace(parts[1]), "/")
           reqs == <<Req("CreateFile", filePath)>>
       IN  IF Len(parts) # 2
           THEN /\ ToolFail(<<>>, "invalid input format: expected 'filepath\\n\\ncontents', got: "
                                  \o toolArgs.input)
                /\ UNCHANGED files
           ELSE IF filePath = ""
           THEN ToolFail(<<>>, "file path cannot be empty") /\ UNCHANGED files
           ELSE \E e \in RemoteCreateFile(BaseBranchName, filePath) :
                IF e # Nil
                THEN /\ ToolFail(reqs, "failed to create file " \o filePath \o ": " \o e)
                     /\ UNCHANGED files
                ELSE /\ ToolEnd(reqs, "Successfully created file: " \o filePath)
                     /\ files' = WriteFile(BaseBranchName, filePath, parts[2])

UpdateFileToolCall ==
    /\ IsToolCall("Update File")
    /\ ToolFrame
    /\ UNCHANGED <<pulls, comments>>
    /\ LET q == ParseUpdate(toolArgs.input)
           filePath == TrimPrefix(TrimSpace(q.filePath), "/")
           get == <<Req("GetContents", filePath)>>
           both == <<Req("GetContents", filePath), Req("UpdateFile", filePath)>>
       IN  IF filePath = ""
           THEN ToolFail(<<>>, "file path cannot be empty") /\ UNCHANGED files
           ELSE IF MarkersMissing(q)
           THEN /\ ToolFail(<<>>, "invalid format: missing OLD <<<< ... >>>> OLD or NEW <<<< ... >>>> NEW markers")
                /\ UNCHANGED files
           ELSE IF ~BlocksSliceOK(q)
           THEN ToolPanics(<<>>) /\ UNCHANGED files
           ELSE \E out \in ToolGetContents(filePath) :
                IF out.err # Nil
                THEN /\ ToolFail(get, "failed to get current file content for " \o filePath
                                      \o ": " \o out.err)
                     /\ UNCHANGED files
                ELSE IF ~out.file
                THEN ToolFail(get, "file " \o filePath \o " not found") /\ UNCHANGED files
                ELSE \E e \in RemoteWriteWithSha(BaseBranchName, filePath, out.sha) :
                     IF e # Nil
                     THEN /\ ToolFail(both, "failed to update file " \o filePath \o ": " \o e)
                          /\ UNCHANGED files
                     ELSE /\ ToolEnd(both, "Successfully updated file: " \o filePath)
                          /\ files' = WriteFile(BaseBranchName, filePath,
                                         ReplaceAll(out.content, OldContent(q), NewContent(q)))

DeleteFileToolCall ==
    /\ IsToolCall("Delete File")
    /\ ToolFrame
    /\ UNCHANGED <<pulls, comments>>
    /\ LET trimmed == TrimSpace(toolArgs.input)
           filePath == TrimPrefix(trimmed, "/")
           get == <<Req("GetContents", filePath)>>
           both == <<Req("GetContents", filePath), Req("DeleteFile", filePath)>>
       IN  IF trimmed = ""
           THEN ToolFail(<<>>, "file path cannot be empty") /\ UNCHANGED files
           ELSE \E out \in ToolGetContents(filePath) :
                IF out.err # Nil
                THEN /\ ToolFail(get, "failed to get file " \o filePath \o " for deletion: "
                                      \o out.err)
                     /\ UNCHANGED files
                ELSE IF ~out.file
                THEN ToolFail(get, "file " \o filePath \o " not found") /\ UNCHANGED files
                ELSE \E e \in RemoteWriteWithSha(BaseBranchName, filePath, out.sha) :
                     IF e # Nil
                     THEN /\ ToolFail(both, "failed to delete file " \o filePath \o ": " \o e)
                          /\ UNCHANGED files
                     ELSE /\ ToolEnd(both, "Successfully deleted file: " \o filePath)
                          /\ files' = RemoveFile(BaseBranchName, filePath)

CommentOnIssueToolCall ==
    /\ IsToolCall("Comment on Issue")
    /\ ToolFrame
    /\ UNCHANGED <<files, pulls>>
    /\ LET parts == SplitN2(toolArgs.input, "\n\n")
           number == TrimSpace(parts[1])
           commentBody == TrimSpace(parts[2])
           reqs == <<Req("CreateComment", number)>>
       IN  IF Len(parts) # 2
           THEN /\ ToolFail(<<>>, "invalid input format: expected 'issue_number\\n\\ncomment', got: "
                                  \o toolArgs.input)
                /\ UNCHANGED comments
           ELSE IF ~AtoiOK(number)
           THEN ToolFail(<<>>, "invalid issue number: " \o parts[1]) /\ UNCHANGED comments
           ELSE IF commentBody = ""
           THEN ToolFail(<<>>, "comment body cannot be empty") /\ UNCHANGED comments
           ELSE \E e \in IssueRequest(Atoi(number)) :
                IF e # Nil
                THEN /\ ToolFail(reqs, "failed to create comment on issue #"
                                       \o Itoa(Atoi(number)) \o ": " \o e)
                     /\ UNCHANGED comments
                ELSE /\ ToolEnd(reqs, "Successfully created comment #1 on issue #"
                                      \o Itoa(Atoi(number)))
                     /\ comments' = comments \cup {<<Atoi(number), commentBody>>}

CreatePullRequestToolCall ==
    /\ IsToolCall("Create Pull Request")
    /\ ToolFrame
    /\ UNCHANGED <<files, comments>>
    /\ LET parts == SplitN2(toolArgs.input, "\n\n")
           title == TrimSpace(parts[1])
           body == TrimSpace(parts[2])
           get == <<Req("Repositories.Get", "")>>
           both == <<Req("Repositories.Get", ""), Req("PullRequests.Create", "")>>
       IN  IF Len(parts) # 2
           THEN /\ ToolFail(<<>>, "invalid input format: expected 'title\\n\\nbody', got: "
                                  \o toolArgs.input)
                /\ UNCHANGED pulls
           ELSE IF title = ""
           THEN ToolFail(<<>>, "pull request title cannot be empty") /\ UNCHANGED pulls
           ELSE \E e \in {Nil, TransientErr} :
                IF e # Nil
                THEN ToolFail(get, "failed to get repository info: " \o e) /\ UNCHANGED pulls
                ELSE \E c \in PullCreate("HEAD", DefaultBranch) :
                     IF c # Nil
                     THEN /\ ToolFail(both, "failed to create pull request: " \o c)
                          /\ UNCHANGED pulls
                     ELSE /\ ToolEnd(both, "Successfully created pull request #"
                                           \o Itoa(NextPullNumber) \o ": " \o title)
                          /\ pulls' = pulls \cup {[number |-> NextPullNumber, title |-> title,
                                                    body |-> body, head |-> "HEAD",
                                                    base |-> DefaultBranch]}

PathToolInputs == {"f", " f ", "/f", "//f", "/", "", "g"}

CreateFileToolInputs == {"g\n\nab", "/g\n\nab", "//g\n\nab", "g\nab", "/\n\nab", "f\n\nab"}

UpdateFileToolInputs ==
    { "f\nOLD <<<<\na\n>>>> OLD\nNEW <<<<\nb\n>>>> NEW",
      "//f\nOLD <<<<\na\n>>>> OLD\nNEW <<<<\nb\n>>>> NEW",
      "g\nOLD <<<<\na\n>>>> OLD\nNEW <<<<\nb\n>>>> NEW",
      "f\nOLD <<<<\na\n>>>> OLD",
      "f\n>>>> OLD\nOLD <<<<\nNEW <<<<\nb\n>>>> NEW",
      "f\nOLD <<<<\na\n>>>> OLD\n>>>> NEW\nNEW <<<<",
      "f\nOLD <<<<>>>> OLD\nNEW <<<<\nb\n>>>> NEW",
      "\nOLD <<<<\na\n>>>> OLD\nNEW <<<<\nb\n>>>> NEW" }

CommentToolInputs == {"7\n\nhi", "7\nhi", "seven\n\nhi", "9\n\nhi", "7\n\n  "}

PullToolInputs == {"T\n\nB", "T", " \n\nB"}

ToolInputs ==
    [tool : {"Read File", "Delete File"}, input : PathToolInputs]
    \cup [tool : {"Create File"}, input : CreateFileToolInputs]
    \cup [tool : {"Update File"}, input : UpdateFileToolInputs]
    \cup [tool : {"Comment on Issue"}, input : CommentToolInputs]
    \cup [tool : {"Create Pull Request"}, input : PullToolInputs]

ToolInit ==
    /\ \E t \in ToolInputs : \E h \in BOOLEAN :
         toolArgs = [kind |-> "tool", tool |-> t.tool, input |-> t.input, handler |-> h]
    /\ toolRet = NoToolRet
    /\ toolReqs = <<>>
    /\ cbLog = <<>>

(***************************************************************************)
(* The wrapper after NewGitHubAPIWrapper, over a repository that has the   *)
(* base branch and possibly other branches.                                *)
(***************************************************************************)
InitRefs ==
    { {BaseBranchName}, {BaseBranchName, "p", "p_v1"} }

\* the wrapper after made calls, with its last call not looked at
WrapperStart(made) ==
    /\ owner = "o" /\ repoName = "r"
    /\ githubBaseBranch = BaseBranchName
    /\ refs \in InitRefs
    /\ activeBranch \in refs \cap {BaseBranchName, "p"}
    /\ \E D \in SUBSET {<<b, "f">> : b \in refs \cap {BaseBranchName, "p"}} :
         files = [k \in D |-> "a"]
    /\ pc = "idle"
    /\ loc = NoLoc
    /\ ret = NoRet
    /\ call = NewCall("none", "")
    /\ nReq = 0
    /\ nWrite = 0
    /\ calls = made
    /\ others = 0
    /\ pulls = {}
    /\ comments = {}

WrapperInit == WrapperStart(0)

Init == WrapperInit /\ LoaderIdle /\ LinkIdle /\ NewIdle /\ ToolIdle

Next ==
    \/ \E b \in BranchInputs : SetActiveBranch(b)
    \/ \E p \in ProposedBranchNames : CreateBranch(p)
    \/ CreateBranchAttempt
    \/ \E f \in PathInputs : ReadFile(f)
    \/ \E q \in CreateFileInputs : CreateFile(q)
    \/ CreateFileWrite
    \/ \E q \in UpdateFileInputs : UpdateFile(q)
    \/ UpdateFileSha
    \/ UpdateFileWrite
    \/ \E f \in PathInputs : DeleteFile(f)
    \/ DeleteFileWrite
    \/ OtherWriter

Spec == Init /\ [][Next]_vars

(***************************************************************************)
(* The wrapper over a repository in which the proposed branch name and     *)
(* every versioned name CreateBranch can derive from it are taken.         *)
(***************************************************************************)
InitTaken ==
    /\ LoaderIdle
    /\ ToolIdle
    /\ LinkIdle
    /\ NewIdle
    /\ owner = "o" /\ repoName = "r"
    /\ githubBaseBranch = BaseBranchName
    /\ \E p \in ProposedBranchNames : refs = {BaseBranchName} \cup TakenNames(p)
    /\ activeBranch \in {BaseBranchName, "p"}
    /\ files = <<>>
    /\ pc = "idle"
    /\ loc = NoLoc
    /\ ret = NoRet
    /\ call = NewCall("none", "")
    /\ nReq = 0
    /\ nWrite = 0
    /\ calls = 0
    /\ others = 0
    /\ pulls = {}
    /\ comments = {}

NextTaken ==
    \/ \E b \in BranchInputs : SetActiveBranch(b)
    \/ \E p \in ProposedBranchNames : CreateBranch(p)
    \/ CreateBranchAttempt

SpecTaken == InitTaken /\ [][NextTaken]_vars

(***************************************************************************)
(* Run(mode, query) over every mode, on the same repositories.             *)
(***************************************************************************)
\* the mode names given to Run, known and unknown
ModeInputs == DOMAIN RunModes \cup UnknownModeInputs

\* the documented create_file payload: path, two newlines, contents
DocumentedCreateFileInputs == {"g\n\nab"}

\* the wrapper in any of its states, with MaxRuns calls of Run ahead
InitRun ==
    WrapperStart(MaxCalls - MaxRuns) /\ LoaderIdle /\ LinkIdle /\ NewIdle /\ ToolIdle

NextRun ==
    \/ \E m \in ModeInputs : \E q \in QueryInputs : RunInvalidMode(m, q)
    \/ \E q \in NumberInputs : RunGetIssue(q)
    \/ \E q \in NumberInputs : RunGetPullRequest(q)
    \/ \E q \in CommentInputs : CommentOnIssue(q)
    \/ \E q \in PullInputs : CreatePullRequest(q)
    \/ \E m \in ModeInputs : ReadOnlyMode(m, "q")
    \/ \E b \in BranchInputs : SetActiveBranch(b)
    \/ \E p \in ProposedBranchNames : CreateBranch(p)
    \/ CreateBranchAttempt
    \/ \E f \in PathInputs : ReadFile(f)
    \/ \E q \in CreateFileInputs \cup DocumentedCreateFileInputs : CreateFile(q)
    \/ CreateFileWrite
    \/ \E q \in UpdateFileInputs : UpdateFile(q)
    \/ UpdateFileSha
    \/ UpdateFileWrite
    \/ \E f \in PathInputs : DeleteFile(f)
    \/ DeleteFileWrite
    \/ OtherWriter

SpecRun == InitRun /\ [][NextRun]_vars

(***************************************************************************)
(* One Load of the issues loader.                                          *)
(***************************************************************************)
WrapperIdle ==
    /\ owner = "o" /\ repoName = "r"
    /\ githubBaseBranch = BaseBranchName
    /\ refs = {BaseBranchName}
    /\ activeBranch = BaseBranchName
    /\ files = <<>>
    /\ pc = "idle"
    /\ loc = NoLoc
    /\ ret = NoRet
    /\ call = NewCall("none", "")
    /\ nReq = 0
    /\ nWrite = 0
    /\ calls = 0
    /\ others = 0
    /\ pulls = {}
    /\ comments = {}

InitLoad == WrapperIdle /\ LoaderInit /\ LinkIdle /\ NewIdle /\ ToolIdle

NextLoad ==
    \/ LoadCall
    \/ LoadIteration

SpecLoad == InitLoad /\ [][NextLoad]_vars

(***************************************************************************)
(* One call of getNextURL.                                                 *)
(***************************************************************************)
InitLink == WrapperIdle /\ LoaderIdle /\ LinkInit /\ NewIdle /\ ToolIdle

NextLink == CallGetNextURL

SpecLink == InitLink /\ [][NextLink]_vars

(***************************************************************************)
(* One call of a constructor.                                              *)
(***************************************************************************)
InitNew == WrapperIdle /\ LoaderIdle /\ LinkIdle /\ NewInit /\ ToolIdle

NextNew ==
    \/ NewGitHubAPIWrapper
    \/ NewGitHubIssuesLoader
    \/ NewGitHubFileLoader

SpecNew == InitNew /\ [][NextNew]_vars

(***************************************************************************)
(* preprocessInput on its own.                                             *)
(***************************************************************************)
InitPre == WrapperIdle /\ LoaderIdle /\ LinkIdle /\ NewIdle /\ PreprocessInit

NextPre == CallPreprocessInput

SpecPre == InitPre /\ [][NextPre]_vars

(***************************************************************************)
(* Load over one page of issue payloads of every shape.                    *)
(***************************************************************************)
MaxIssues == 2

\* title and body as strings, empty strings, null, absent or of another
\* type; pull_request an object, null or absent
IssuePayloads ==
    { [title |-> JString("t1"), body |-> JString("b1"), pull_request |-> JAbsent],
      [title |-> JString("t2"), body |-> JNull,         pull_request |-> JObject],
      [title |-> JString("t3"), body |-> JString(""),   pull_request |-> JNull],
      [title |-> JString(""),   body |-> JAbsent,       pull_request |-> JAbsent],
      [title |-> JNull,         body |-> JString(""),   pull_request |-> JObject],
      [title |-> JString("t6"), body |-> JNumber,       pull_request |-> JAbsent] }

InitParse ==
    /\ WrapperIdle /\ LinkIdle /\ NewIdle /\ ToolIdle
    /\ \E inc \in BOOLEAN :
         l = [Repo |-> "o/r", GitHubAPIURL |-> "https://api.github.com",
              State |-> "open", IncludePRs |-> inc, Page |-> NilInt, PerPage |-> NilInt]
    /\ \E n \in 0..MaxIssues : \E issues \in [1..n -> IssuePayloads] : pages = <<issues>>
    /\ linkStyle \in LinkStyles
    /\ lpc = "idle"
    /\ url = ""
    /\ allDocs = <<>>
    /\ lret = [docs |-> <<>>, err |-> Nil]
    /\ requested = <<>>
    /\ failedAt = 0

SpecParse == InitParse /\ [][NextLoad]_vars

(***************************************************************************)
(* One Call of a tool, with and without a callbacks handler, on a          *)
(* repository with or without the file f on its default branch.            *)
(***************************************************************************)
InitTool ==
    /\ LoaderIdle /\ LinkIdle /\ NewIdle /\ ToolInit
    /\ owner = "o" /\ repoName = "r"
    /\ githubBaseBranch = BaseBranchName
    /\ refs = {BaseBranchName}
    /\ activeBranch = BaseBranchName
    /\ files \in {<<>>, [k \in {<<BaseBranchName, "f">>} |-> "a"]}
    /\ pc = "idle"
    /\ loc = NoLoc
    /\ ret = NoRet
    /\ call = NewCall("none", "")
    /\ nReq = 0
    /\ nWrite = 0
    /\ calls = 0
    /\ others = 0
    /\ pulls = {}
    /\ comments = {}

NextTool ==
    \/ ReadFileToolCall
    \/ CreateFileToolCall
    \/ UpdateFileToolCall
    \/ DeleteFileToolCall
    \/ CommentOnIssueToolCall
    \/ CreatePullRequestToolCall

SpecTool == InitTool /\ [][NextTool]_vars

(***************************************************************************)
(* Two goroutines on one wrapper: a file operation, and a SetActiveBranch  *)
(* or CreateBranch that runs between its requests.  The wrapper has no     *)
(* lock; the file operation reads w.activeBranch anew for each request.    *)
(***************************************************************************)
FileOperations == {"CreateFile", "UpdateFile", "DeleteFile"}

\* a file operation is between two of its requests
FileOperationUnderWay == pc # "idle" /\ loc.op \in FileOperations

\* SetActiveBranch run to its end by the second goroutine
SetActiveBranchConcurrently(branchName) ==
    /\ FileOperationUnderWay
    /\ calls < MaxCalls
    /\ calls' = calls + 1
    /\ \E listErr \in {Nil, TransientErr} :
       \E listed \in Listed(branchName) :
        IF listErr = Nil /\ listed
        THEN activeBranch' = branchName
        ELSE UNCHANGED activeBranch
    /\ UNCHANGED <<githubBaseBranch, refs, files, pc, loc, ret, call, nReq, nWrite, others>>
    /\ UNCHANGED <<xvars, lvars, kvars, nvars, tvars, ovars>>

\* the first version number of the name that is free, at most MaxAttempts
RECURSIVE FirstFreeVersion(_, _)
FirstFreeVersion(proposedBranchName, n) ==
    IF n >= MaxAttempts \/ VersionedName(proposedBranchName, n) \notin refs THEN n
    ELSE FirstFreeVersion(proposedBranchName, n + 1)

\* the name CreateBranch ends with when every Git.CreateRef is answered
FreeBranchName(proposedBranchName) ==
    IF proposedBranchName \notin refs THEN proposedBranchName
    ELSE VersionedName(proposedBranchName, FirstFreeVersion(proposedBranchName, 1))

\* CreateBranch run to its end by the second goroutine, no request failing
\* but for the name collisions
CreateBranchConcurrently(proposedBranchName) ==
    /\ FileOperationUnderWay
    /\ calls < MaxCalls
    /\ calls' = calls + 1
    /\ FreeBranchName(proposedBranchName) \notin refs
    /\ LET newBranchName == FreeBranchName(proposedBranchName)
       IN  /\ refs' = refs \cup {newBranchName}
           /\ files' = BranchFiles(newBranchName, githubBaseBranch)
           /\ activeBranch' = newBranchName
    /\ UNCHANGED <<githubBaseBranch, pc, loc, ret, call, nReq, nWrite, others>>
    /\ UNCHANGED <<xvars, lvars, kvars, nvars, tvars, ovars>>

NextRace ==
    \/ \E q \in CreateFileInputs : CreateFile(q)
    \/ CreateFileWrite
    \/ \E q \in UpdateFileInputs : UpdateFile(q)
    \/ UpdateFileSha
    \/ UpdateFileWrite
    \/ \E f \in PathInputs : DeleteFile(f)
    \/ DeleteFileWrite
    \/ \E b \in BranchInputs : SetActiveBranchConcurrently(b)
    \/ \E p \in ProposedBranchNames : CreateBranchConcurrently(p)

SpecRace == Init /\ [][NextRace]_vars


(***************************************************************************)
(* Properties of the wrapper.                                              *)
(***************************************************************************)
FileOps == {"CreateFile", "UpdateFile", "DeleteFile"}

\* a step that is the start of a wrapper call
CallStarts == pc = "idle" /\ calls' = calls + 1

\* C1: whenever CreateFile, UpdateFile or DeleteFile is called while the
\* active branch equals the base branch, the call issues no remote request,
\* returns the protected-branch message with a nil error, and leaves the
\* repository and the active branch unchanged.
C1_ProtectedBranchRefused ==
    [][(CallStarts /\ call'.op \in FileOps /\ activeBranch = githubBaseBranch)
        => /\ nReq' = 0
           /\ nWrite' = 0
           /\ pc' = "idle"
           /\ ret' = Return("You're attempting to commit to the directly to the "
                            \o githubBaseBranch
                            \o " branch, which is protected. Please create a new branch and try again.",
                            Nil)
           /\ files' = files
           /\ refs' = refs
           /\ activeBranch' = activeBranch]_vars

\* a file operation was refused on the base branch after an earlier call
C1_Witness ==
    /\ pc = "idle"
    /\ calls >= 2
    /\ call.op \in FileOps
    /\ call.active0 = githubBaseBranch
    /\ nReq = 0
    /\ ret.result = ProtectedMsg

\* the OLD block of the query is defined: all four markers, in order
WellFormedUpdate(q) == ~MarkersMissing(q) /\ BlocksSliceOK(q)

\* C2: UpdateFile with active branch # base branch and all four markers: if
\* the OLD block does not occur verbatim in the file's current content, no
\* remote write is issued, the content is unchanged and the result is the
\* 'not updated because old content was not found' message with a nil error.
C2_StaleOldBlockIsNoOp ==
    LET q == ParseUpdate(call.arg)
        before == IF <<call.active0, q.filePath>> \in DOMAIN call.files0
                  THEN call.files0[<<call.active0, q.filePath>>] ELSE NoFile
    IN  (/\ pc = "idle"
         /\ call.op = "UpdateFile"
         /\ call.active0 # githubBaseBranch
         /\ ~call.interfered
         /\ WellFormedUpdate(q)
         /\ before # NoFile
         /\ ~Contains(before, OldContent(q)))
        => /\ nWrite = 0
           /\ FileAt(call.active0, q.filePath) = before
           /\ ret = Return(NotUpdatedMsg, Nil)

\* C3: UpdateFile sends as concurrency guard the hash of the file version
\* from which the replaced content was computed, so a write that the remote
\* accepts replaces exactly the version that UpdateFile read: a change made
\* by another writer between the read and the write is never overwritten.
C3_GuardIsHashOfVersionRead ==
    (/\ call.op = "UpdateFile"
     /\ call.readOk
     /\ call.sentSha # "")
    => /\ call.sentSha = Sha(call.readContent)
       /\ call.accepted => call.overwritten = call.readContent

\* C4: the first ref-creation attempt uses the proposed name p; after k
\* consecutive conflicts the next attempt uses p_v<k>; the first attempt that
\* succeeds makes the created name the active branch, ends the call and the
\* result names that branch.
C4_VersionedRetry ==
    [][(pc = "CreateBranch_loop" /\ nWrite' = nWrite + 1)
        => /\ loc.newBranchName =
                IF nWrite = 0 THEN call.arg
                ELSE call.arg \o "_v" \o ToString(nWrite)
           /\ refs' # refs
                => /\ refs' = refs \cup {loc.newBranchName}
                   /\ activeBranch' = loc.newBranchName
                   /\ pc' = "idle"
                   /\ ret'.err = Nil
                   /\ ret'.result = "Branch '" \o loc.newBranchName
                        \o "' created successfully, and set as current active branch."]_vars

\* CreateBranch("p") met two conflicts and created p_v2
C4_Witness ==
    /\ pc = "idle"
    /\ call.op = "CreateBranch"
    /\ nWrite = 3
    /\ activeBranch = call.arg \o "_v2"
    /\ activeBranch \in refs \ call.refs0
    /\ ret.err = Nil

\* the names CreateBranch(p) tries in 1000 attempts
CandidateNames(p) == {p} \cup {p \o "_v" \o ToString(n) : n \in 1..999}

\* C5: CreateBranch makes at most 1000 ref-creation attempts; if all 1000
\* collide with existing references it stops, returns (as a result string) a
\* failure that mentions the proposed name, creates no branch and leaves the
\* active branch unchanged.
C5_GivesUpAfter1000 ==
    call.op = "CreateBranch"
    => /\ nWrite <= 1000
       /\ nWrite = 1000 => pc = "idle"
       /\ (pc = "idle" /\ call.lastErr # Nil /\ IsConflict(call.lastErr)
            /\ CandidateNames(call.arg) \subseteq call.refs0)
           => /\ nWrite = 1000
              /\ ret.err = Nil
              /\ Contains(ret.result, "Unable to create branch")
              /\ Contains(ret.result, call.arg)
              /\ refs = call.refs0
              /\ activeBranch = call.active0

\* CreateBranch gave up after 1000 collisions
C5_Witness ==
    /\ pc = "idle"
    /\ call.op = "CreateBranch"
    /\ nWrite = 1000
    /\ IsConflict(call.lastErr)
    /\ ret = Return(UnableMsg(call.arg), Nil)

\* C6: if fetching the base-branch ref fails, or a ref-creation attempt fails
\* with an error other than 'Reference already exists', CreateBranch returns
\* a non-nil error at once, makes no further attempt and leaves the active
\* branch unchanged.
C6_OtherErrorAborts ==
    (/\ call.op = "CreateBranch"
     /\ call.lastErr # Nil
     /\ nWrite = 0 \/ ~Contains(call.lastErr, "Reference already exists"))
    => /\ pc = "idle"
       /\ ret.err # Nil
       /\ ret.result = ""
       /\ activeBranch = call.active0
       /\ refs = call.refs0

\* a ref-creation attempt after a conflict failed for another reason
C6_Witness ==
    /\ pc = "idle"
    /\ call.op = "CreateBranch"
    /\ nWrite = 2
    /\ call.lastErr = TransientErr
    /\ ret.err = "failed to create branch: " \o TransientErr

\* the fetch of the base-branch ref failed
C6_WitnessGetRef ==
    /\ pc = "idle"
    /\ call.op = "CreateBranch"
    /\ nWrite = 0
    /\ call.lastErr # Nil


(***************************************************************************)
(* Properties of the issues loader.                                        *)
(***************************************************************************)
Unpaginated == l.Page = <<>> /\ l.PerPage = <<>>

IsPrefix(a, b) == Len(a) <= Len(b) /\ a = SubSeq(b, 1, Len(a))

\* the URLs of a whole walk: the built URL, then the next link of each page
WalkURLs == [k \in 1..Len(pages) |-> IF k = 1 THEN buildURL(l) ELSE PageURL(k)]

RECURSIVE DocsOfPages(_)
DocsOfPages(n) ==
    IF n = 0 THEN <<>> ELSE DocsOfPages(n - 1) \o KeptDocs(pages[n], l.IncludePRs)

\* C7: with neither Page nor PerPage set, Load requests the URL of buildURL
\* and then the rel="next" URL of each response in turn, stops after the
\* first response without a next link, and returns with a nil error the
\* documents of all fetched pages in page order.  Load returns after at
\* most as many requests as the chain has pages: while it has not returned
\* its next request is due and fewer requests than pages were made.
C7_WalksAllPages ==
    Unpaginated =>
        /\ IsPrefix(requested, WalkURLs)
        /\ lpc = "loop" => (url # "" /\ Len(requested) < Len(pages))
        /\ (lpc = "done" /\ lret.err = Nil)
            => /\ requested = WalkURLs
               /\ lret.docs = DocsOfPages(Len(pages))

\* a walk over three pages that returned their documents
C7_Witness ==
    /\ Unpaginated
    /\ lpc = "done"
    /\ lret.err = Nil
    /\ Len(requested) = 3
    /\ Len(lret.docs) >= 4

\* C8: with a page or per-page value set, Load issues exactly one GET and
\* returns only the documents of that response, whatever its Link header.
C8_OnePageWhenPaginated ==
    ~Unpaginated =>
        /\ Len(requested) <= 1
        /\ lpc = "done" =>
            /\ requested = <<buildURL(l)>>
            /\ lret.err = Nil =>
                lret.docs = KeptDocs(Response(buildURL(l)).issues, l.IncludePRs)

\* Load returned one page although its response named a next page
C8_Witness ==
    /\ ~Unpaginated
    /\ lpc = "done"
    /\ lret.err = Nil
    /\ Len(requested) = 1
    /\ Len(lret.docs) > 0
    /\ Contains(Response(requested[1]).link, "rel=\"next\"")

\* the URL between the angle brackets of the first link of the header whose
\* parameters contain rel="next"; none when the header has no such link or
\* that link is written without angle brackets
ExpectedNextURL(links) ==
    LET nexts == {i \in 1..Len(links) :
                    links[i].rel = "next" /\ links[i].form # "no params"}
    IN  IF nexts = {} THEN ""
        ELSE IF links[Min(nexts)].form = "no brackets" THEN ""
        ELSE links[Min(nexts)].url

\* C9: getNextURL returns exactly the URL between the angle brackets of the
\* link whose parameters contain rel="next", wherever it stands, and the
\* empty string for an empty header, a header without such a link, or a
\* malformed header.
C9_NextURLExtracted ==
    linkResult # "<not called>" => linkResult = ExpectedNextURL(linkSegs)

\* C10: if a page request fails, Load issues no further request and returns
\* a non-nil error with no documents, also after pages fetched successfully.
C10_FailureEndsLoad ==
    failedAt # 0 =>
        /\ lpc = "done"
        /\ Len(requested) = failedAt
        /\ lret.err # Nil
        /\ lret.docs = <<>>

\* the second request failed after a first page with documents
C10_Witness ==
    /\ failedAt = 2
    /\ Len(allDocs) > 0
    /\ lpc = "done"
    /\ lret.err = "failed to fetch issues: context canceled"


(***************************************************************************)
(* Properties of Run.                                                      *)
(***************************************************************************)
\* the 21 mode names Run recognises
RecognisedModes ==
    {"get_issue", "get_pull_request", "get_issues", "comment_on_issue", "create_file",
     "create_pull_request", "read_file", "update_file", "delete_file",
     "list_open_pull_requests", "list_files_in_main_branch", "list_files_in_bot_branch",
     "list_branches_in_repo", "set_active_branch", "create_branch",
     "get_files_from_directory", "search_issues_and_prs", "search_code",
     "get_latest_release", "get_releases", "get_release"}

\* C11: Run with a mode that is not one of the 21 recognised names returns
\* an empty result and an error containing 'invalid mode', for every query,
\* issues no remote request and leaves the active branch unchanged.
C11_InvalidModeRejected ==
    (call.op # "none" /\ call.mode \notin RecognisedModes)
    => /\ pc = "idle"
       /\ ret.result = ""
       /\ Contains(ret.err, "invalid mode")
       /\ nReq = 0
       /\ nWrite = 0
       /\ activeBranch = call.active0
       /\ refs = call.refs0

\* Run("Create_File", "q") was refused on a branch other than the base branch
C11_Witness ==
    /\ pc = "idle"
    /\ call.op = "Run"
    /\ call.mode = "Create_File"
    /\ call.arg = "q"
    /\ call.active0 # githubBaseBranch
    /\ ret = Return("", "invalid mode: Create_File")

\* the decimal integers among short strings
IsDecimalInteger(q) ==
    \E n \in 0..99 : q \in {ToString(n), "+" \o ToString(n), "-" \o ToString(n)}

\* C12: Run with mode get_issue or get_pull_request and a query that is not
\* a decimal integer returns a non-nil parse error ('invalid issue number' /
\* 'invalid PR number') and issues no remote request.
C12_NonNumericQueryRejected ==
    (call.op \in {"GetIssue", "GetPullRequest"} /\ ~IsDecimalInteger(call.arg))
    => /\ pc = "idle"
       /\ nReq = 0
       /\ ret.result = ""
       /\ ret.err = (IF call.op = "GetIssue" THEN "invalid issue number: "
                     ELSE "invalid PR number: ") \o call.arg

\* Run("get_pull_request", "7a") returned the parse error
C12_Witness ==
    /\ pc = "idle"
    /\ call.op = "GetPullRequest"
    /\ call.arg = "7a"
    /\ nReq = 0
    /\ ret.err = "invalid PR number: 7a"

\* the four markers of an update_file payload
UpdateMarkers == {"OLD <<<<", ">>>> OLD", "NEW <<<<", ">>>> NEW"}

\* the payload of the last call lacks a delimiter or has a non-integer number
IllFormedPayload ==
    \/ /\ call.op = "CommentOnIssue"
       /\ \/ ~Contains(call.arg, "\n\n")
          \/ ~IsDecimalInteger(Slice(call.arg, 0, Index(call.arg, "\n\n")))
    \/ /\ call.op = "CreateFile"
       /\ ~Contains(call.arg, "\n")
    \/ /\ call.op = "UpdateFile"
       /\ \E mk \in UpdateMarkers : ~Contains(call.arg, mk)

\* C13: with active branch # base branch, a comment_on_issue payload without
\* a double newline or with a non-integer issue number, a create_file payload
\* without a newline and an update_file payload missing one of the four
\* markers each yield a descriptive format message at once, with no remote
\* request issued.
C13_IllFormedPayloadRejected ==
    (call.active0 # githubBaseBranch /\ IllFormedPayload)
    => /\ pc = "idle"
       /\ nReq = 0
       /\ nWrite = 0
       /\ ~ret.panic
       /\ ret.err = Nil
       /\ ret.result =
            IF call.op = "CreateFile" THEN "Invalid file format"
            ELSE IF call.op = "UpdateFile"
            THEN "Invalid update format: missing OLD <<<< ... >>>> OLD or NEW <<<< ... >>>> NEW markers"
            ELSE IF ~Contains(call.arg, "\n\n") THEN "Invalid comment format"
            ELSE "Invalid issue number: " \o Slice(call.arg, 0, Index(call.arg, "\n\n"))
       /\ ~call.interfered => files = call.files0

\* an update_file payload without the NEW markers was refused off the base branch
C13_Witness ==
    /\ pc = "idle"
    /\ call.op = "UpdateFile"
    /\ call.active0 # githubBaseBranch
    /\ Contains(call.arg, "OLD <<<<")
    /\ ~Contains(call.arg, "NEW <<<<")
    /\ nReq = 0
    /\ Contains(ret.result, "Invalid update format")

\* C14: Run('create_pull_request', payload) with a payload that has no
\* double newline between title and body produces a descriptive format error
\* and creates no pull request: no remote write is issued.
C14_PullWithoutDelimiterRejected ==
    (call.op = "CreatePullRequest" /\ ~Contains(call.arg, "\n\n"))
    => /\ nWrite = 0
       /\ ~Contains(ret.result, "Successfully created PR")
       /\ \A p \in pulls : p.title # Split(call.arg, "\n")[1]

MutatingModes ==
    {"create_file", "update_file", "delete_file", "comment_on_issue",
     "create_pull_request", "create_branch"}

\* the positions of a call whose next request is the request it made last:
\* the Git.CreateRef of the loop of CreateBranch after an earlier iteration, and
\* the GetContents of UpdateFile that follows the GetContents of its ReadFile
SameRequestNext ==
    \/ pc = "CreateBranch_loop" /\ loc.i > 0
    \/ pc = "UpdateFile_sha"

\* C15: every Run call of a mutating mode (create_file, update_file,
\* delete_file, comment_on_issue, create_pull_request, create_branch) issues
\* at most one remote write request, and no operation issues a request again
\* after that request has failed.
C15_SingleWriteNoRetry ==
    /\ [](call.mode \in MutatingModes => nWrite <= 1)
    /\ [][(SameRequestNext /\ call.lastErr # Nil) => nReq' = nReq]_vars

SoftOperations == {"CommentOnIssue", "ReadFile", "CreateFile", "UpdateFile", "DeleteFile"}

\* C16: the soft operations CommentOnIssue, ReadFile, CreateFile, UpdateFile
\* and DeleteFile return a nil error for every input and every remote outcome:
\* a call that has ended has returned, and returned err = nil.
C16_SoftOperationsReturnNil ==
    (call.op \in SoftOperations /\ pc = "idle") => (ret.err = Nil /\ ~ret.panic)

(***************************************************************************)
(* Properties of the constructors                                          *)
(***************************************************************************)
WrapperMade == newArgs.kind = "wrapper" /\ newRet.called

\* the three items as the constructor sees them: Config first, then environment
GivenRepository ==
    IF newArgs.config.Repository # "" THEN newArgs.config.Repository
    ELSE newArgs.env.GITHUB_REPOSITORY
GivenAppID ==
    IF newArgs.config.AppID # "" THEN newArgs.config.AppID ELSE newArgs.env.GITHUB_APP_ID
GivenPrivateKey ==
    IF newArgs.config.PrivateKey # "" THEN newArgs.config.PrivateKey
    ELSE newArgs.env.GITHUB_APP_PRIVATE_KEY

AllGiven == GivenRepository # "" /\ GivenAppID # "" /\ GivenPrivateKey # ""

FirstMissing ==
    IF GivenRepository = "" THEN "GITHUB_REPOSITORY is required"
    ELSE IF GivenAppID = "" THEN "GITHUB_APP_ID is required"
    ELSE "GITHUB_APP_PRIVATE_KEY is required"

SlashCount(s) == Cardinality({i \in 0..(Len(s) - 1) : Slice(s, i, i + 1) = "/"})

HasPrefix(s, prefix) == Len(s) >= Len(prefix) /\ Slice(s, 0, Len(prefix)) = prefix

\* C17 as stated: for a repository string of the form owner/repo the
\* constructor succeeds if and only if repository, app ID and private key are
\* each available; a missing item fails before any request with the error of
\* the first missing one; a repository string without exactly one '/' fails
\* with 'invalid repository format'.
C17_SucceedsIffAllGiven ==
    WrapperMade =>
        /\ (SlashCount(GivenRepository) = 1 => (newRet.ok <=> AllGiven))
        /\ (~AllGiven => (~newRet.ok /\ newRet.nReq = 0 /\ newRet.err = FirstMissing))
        /\ ((GivenRepository # "" /\ SlashCount(GivenRepository) # 1)
              => (~newRet.ok /\ HasPrefix(newRet.err, "invalid repository format")))

\* C17, amended: the constructor succeeds if and only if the three items are
\* available, the repository string has exactly one '/' and the lookup of the
\* repository on the remote succeeds; a missing item fails before any request
\* with the error of the first missing one; with the three items available, a
\* repository string without exactly one '/' fails before any request with
\* 'invalid repository format', and a failed lookup fails the constructor
\* with 'failed to get repository'.
C17_SucceedsIffAllGivenAndFound ==
    WrapperMade =>
        /\ (newRet.ok =>
              /\ AllGiven /\ SlashCount(GivenRepository) = 1 /\ newRet.nReq = 1
              /\ newRet.obj.owner \o "/" \o newRet.obj.repoName = GivenRepository
              /\ newRet.obj.appID = GivenAppID
              /\ newRet.obj.privateKey = GivenPrivateKey)
        /\ (~AllGiven => (~newRet.ok /\ newRet.nReq = 0 /\ newRet.err = FirstMissing))
        /\ ((AllGiven /\ SlashCount(GivenRepository) # 1)
              => (~newRet.ok /\ newRet.nReq = 0
                  /\ HasPrefix(newRet.err, "invalid repository format")))
        /\ ((AllGiven /\ SlashCount(GivenRepository) = 1 /\ ~newRet.ok)
              => (newRet.nReq = 1 /\ HasPrefix(newRet.err, "failed to get repository: ")))

\* all three items come from the environment, the repository is found
C17_Witness ==
    /\ WrapperMade
    /\ newArgs.config.Repository = "" /\ newArgs.config.AppID = ""
    /\ newArgs.config.PrivateKey = ""
    /\ newRet.ok
    /\ newRet.obj.owner = "o" /\ newRet.obj.repoName = "r"

LoaderMade == newArgs.kind \in {"issues", "file"} /\ newRet.called

TokenOptionNames == {"WithAccessToken", "WithFileAccessToken"}

\* the positions of the token options in the option list of the call
TokenOptionsAt == {i \in 1..Len(newArgs.opts) : newArgs.opts[i].name \in TokenOptionNames}

\* C18: with GITHUB_PERSONAL_ACCESS_TOKEN unset, the two loader constructors
\* fail when given no token option and fail for an empty repository, and
\* succeed for a non-empty repository when a token is supplied through
\* WithAccessToken / WithFileAccessToken; the AccessToken of the loader then
\* equals the supplied token.
C18_TokenOptionSuffices ==
    (LoaderMade /\ newArgs.envToken = "") =>
        /\ (TokenOptionsAt = {} => ~newRet.ok)
        /\ (newArgs.repo = "" => ~newRet.ok)
        /\ ((newArgs.repo # "" /\ TokenOptionsAt # {})
              => (/\ newRet.ok
                  /\ \E i \in TokenOptionsAt : newRet.obj.AccessToken = newArgs.opts[i].v))

(***************************************************************************)
(* Properties of SetActiveBranch                                           *)
(***************************************************************************)
\* C19: SetActiveBranch(b): if b is among the branches the remote listed, the
\* active branch becomes b; if b is not listed (it does not exist, or it is
\* not on the page returned), the active branch is unchanged and the call
\* returns a 'does not exist' message with a nil error; if listing the
\* branches fails, it returns a non-nil error and the active branch is
\* unchanged.  The call makes one request and no write.
C19_SwitchOnlyToListedBranch ==
    call.op = "SetActiveBranch" =>
        /\ nReq = 1 /\ nWrite = 0 /\ refs = call.refs0
        /\ (call.listed => (call.lastErr = Nil /\ call.arg \in call.refs0))
        /\ ((call.lastErr = Nil /\ call.listed)
              => (activeBranch = call.arg /\ ret.err = Nil))
        /\ ((call.lastErr = Nil /\ ~call.listed)
              => (/\ activeBranch = call.active0
                  /\ ret.err = Nil
                  /\ HasPrefix(ret.result, "Error " \o call.arg \o " does not exist")))
        /\ (call.lastErr # Nil
              => (/\ activeBranch = call.active0
                  /\ ret.err # Nil
                  /\ ret.result = ""))

\* a switch to another, listed branch; the repository has more branches than a
\* page of the listing holds
C19_Witness ==
    /\ call.op = "SetActiveBranch"
    /\ call.listed
    /\ call.active0 # call.arg
    /\ activeBranch = call.arg
    /\ Cardinality(refs) > ListPageSize

\* an existing branch that the page of the listing left out
C19_WitnessUnlisted ==
    /\ call.op = "SetActiveBranch"
    /\ call.lastErr = Nil
    /\ ~call.listed
    /\ call.arg \in refs
    /\ activeBranch = call.active0

(***************************************************************************)
(* Properties of create_file                                               *)
(***************************************************************************)
\* the payload in the documented format: file path, two newlines, contents
DocumentedPath(payload) == SplitN2(payload, "\n\n")[1]
DocumentedContents(payload) == SplitN2(payload, "\n\n")[2]

\* C20: Run('create_file', P + "\n\n" + C), in the documented format, with
\* active branch # base branch and no file at P, creates the file at path P
\* on the active branch with contents exactly C: when the call reports the
\* file created, the file at P holds C.
C20_DocumentedCreateFile ==
    (/\ call.op = "CreateFile" /\ call.mode = "create_file"
     /\ pc = "idle"
     /\ Contains(call.arg, "\n\n")
     /\ call.active0 # githubBaseBranch
     /\ <<call.active0, DocumentedPath(call.arg)>> \notin DOMAIN call.files0
     /\ ret.result = "Created file " \o DocumentedPath(call.arg)
     /\ ~call.interfered)
    => FileAt(call.active0, DocumentedPath(call.arg)) = DocumentedContents(call.arg)

(***************************************************************************)
(* Properties of preprocessInput                                           *)
(***************************************************************************)
Preprocessed == toolArgs.kind = "preprocess" /\ toolRet.called

\* the decimal form without sign '+', leading zeros or '-0'
CanonicalDecimal(s) ==
    LET d == StripZeros(Unsigned(s))
    IN  IF d = "" THEN "0"
        ELSE IF Slice(s, 0, 1) = "-" THEN "-" \o d
        ELSE d

\* the whitespace-separated tokens of s that parse as an integer, by position
IntegerTokensAt(s) == {i \in 1..Len(Fields(s)) : AtoiOK(Fields(s)[i])}

\* C21: for modes get_issue and get_pull_request, preprocessInput returns the
\* canonical decimal form of the whitespace-trimmed input when that parses as
\* an integer; otherwise the canonical form of the first whitespace-separated
\* token that parses as an integer; otherwise the trimmed input unchanged.
C21_NumberExtracted ==
    (Preprocessed /\ toolArgs.mode \in {"get_issue", "get_pull_request"}) =>
        LET t == TrimSpace(toolArgs.input)
        IN  /\ toolRet.err = Nil /\ ~toolRet.panic
            /\ toolRet.result =
                 IF AtoiOK(t) THEN CanonicalDecimal(t)
                 ELSE IF IntegerTokensAt(t) # {}
                 THEN CanonicalDecimal(Fields(t)[Min(IntegerTokensAt(t))])
                 ELSE t

\* "Issue number 123" -> "123"
C21_Witness ==
    /\ Preprocessed
    /\ toolArgs.mode = "get_issue"
    /\ toolArgs.input = "Issue number 123"
    /\ toolRet.result = "123"

\* "  456  " -> "456"
C21_WitnessTrimmed ==
    /\ Preprocessed
    /\ toolArgs.mode = "get_pull_request"
    /\ toolArgs.input = "  456  "
    /\ toolRet.result = "456"

Parsed == lpc = "done" /\ lret.err = Nil /\ Len(requested) = 1 /\ Len(pages) = 1

IsNonEmptyString(j) == j.t = "string" /\ j.v # ""

\* C23: parseIssue sets the document content to the issue body when the body
\* is a non-empty string and to the title otherwise (the empty string when the
\* title is not a string), so every document produced from an issue payload
\* with a non-empty title has non-empty content.
C23_ContentFallsBackToTitle ==
    Parsed =>
        /\ \A i \in 1..Len(lret.docs) :
             lret.docs[i].Metadata.title # "" => lret.docs[i].PageContent # ""
        /\ l.IncludePRs =>
             /\ Len(lret.docs) = Len(pages[1])
             /\ \A i \in 1..Len(pages[1]) :
                  LET issue == pages[1][i]
                  IN  /\ lret.docs[i].PageContent =
                           IF IsNonEmptyString(issue.body) THEN issue.body.v
                           ELSE IF issue.title.t = "string" THEN issue.title.v
                           ELSE ""
                      /\ IsNonEmptyString(issue.title) => lret.docs[i].PageContent # ""

\* an issue with a null body and one with an empty body, each with a title
C23_Witness ==
    /\ Parsed
    /\ l.IncludePRs
    /\ Len(pages[1]) = 2
    /\ pages[1][1].body = JNull /\ pages[1][2].body = JString("")
    /\ lret.docs[1].PageContent = "t2" /\ lret.docs[2].PageContent = "t3"

\* the positions of the issues of the page that are not pull requests
RECURSIVE PlainIssuesOf(_)
PlainIssuesOf(issues) ==
    IF Len(issues) = 0 THEN <<>>
    ELSE (IF Head(issues).pull_request.t \in {"absent", "null"} THEN <<Head(issues)>> ELSE <<>>)
         \o PlainIssuesOf(Tail(issues))

\* C24: a document's is_pull_request is true exactly when the issue payload
\* carries a non-null pull_request field; with IncludePRs false, Load returns
\* exactly the fetched records whose is_pull_request is false, in their
\* fetched order, and with IncludePRs true it returns every fetched record.
C24_PullRequestsFiltered ==
    Parsed =>
        LET fetched == pages[1]
            kept == IF l.IncludePRs THEN fetched ELSE PlainIssuesOf(fetched)
        IN  /\ Len(lret.docs) = Len(kept)
            /\ \A i \in 1..Len(kept) :
                 /\ lret.docs[i].Metadata.title =
                        (IF kept[i].title.t = "string" THEN kept[i].title.v ELSE "")
                 /\ lret.docs[i].Metadata.is_pull_request
                        = (kept[i].pull_request.t \notin {"absent", "null"})
            /\ ~l.IncludePRs => \A i \in 1..Len(lret.docs) :
                                   ~lret.docs[i].Metadata.is_pull_request

\* a pull request dropped and an issue with a null pull_request field kept
C24_Witness ==
    /\ Parsed
    /\ ~l.IncludePRs
    /\ Len(pages[1]) = 2
    /\ pages[1][1].pull_request = JObject /\ pages[1][2].pull_request = JNull
    /\ Len(lret.docs) = 1
    /\ lret.docs[1].Metadata.title = "t3"

(***************************************************************************)
(* Properties of the tools of tools/github                                 *)
(***************************************************************************)
FileTools == {"Read File", "Create File", "Update File", "Delete File"}

ToolCalled == toolArgs.kind = "tool" /\ toolRet.called

\* C25: for every input string, the file path that the Read File, Create
\* File, Update File and Delete File tools send to the remote never starts
\* with a slash.
C25_NoLeadingSlashSent ==
    (ToolCalled /\ toolArgs.tool \in FileTools) =>
        \A i \in 1..Len(toolReqs) : ~HasPrefix(toolReqs[i].path, "/")

\* C26: for every update_file payload, including payloads whose OLD/NEW
\* markers are all present but appear in any order, overlap or repeat,
\* UpdateFile of the wrapper and UpdateFileTool.Call end with a result string
\* or an error value and never panic while extracting the old and new blocks.
C26_UpdateNeverPanics ==
    /\ (ToolCalled /\ toolArgs.tool = "Update File") => ~toolRet.panic
    /\ (call.op = "UpdateFile" /\ pc = "idle") => ~ret.panic

CallbackNames == {"HandleToolStart", "HandleToolEnd", "HandleToolError"}

\* how many times the callback was invoked
Invoked(name) == Cardinality({i \in 1..Len(cbLog) : cbLog[i] = name})

\* C29: every Call of a tool that has a callbacks handler set invokes
\* HandleToolStart exactly once, before any validation or remote request, and
\* then exactly one of HandleToolEnd (if and only if Call returns a nil error)
\* or HandleToolError (if and only if Call returns an error); with no handler
\* set no callback is invoked.
C29_CallbacksBracketCall ==
    ToolCalled =>
        IF toolArgs.handler
        THEN /\ Invoked("HandleToolStart") = 1
             /\ cbLog[1] = "HandleToolStart"
             /\ Invoked("HandleToolEnd") + Invoked("HandleToolError") = 1
             /\ cbLog[Len(cbLog)] \in {"HandleToolEnd", "HandleToolError"}
             /\ Invoked("HandleToolEnd") = 1 <=> (~toolRet.panic /\ toolRet.err = Nil)
             /\ Invoked("HandleToolError") = 1 <=> (~toolRet.panic /\ toolRet.err # Nil)
        ELSE \A i \in 1..Len(cbLog) : cbLog[i] \notin CallbackNames

(***************************************************************************)
(* Properties of the branch context                                        *)
(***************************************************************************)
\* C27: in every sequence of Run calls, the active branch changes only
\* through a SetActiveBranch that finds the branch or a CreateBranch that
\* succeeds; every other mode and every failed operation leaves it
\* unchanged, and the owner, the repository name and the base branch never
\* change after construction.
C27_BranchContextFrame ==
    [][/\ owner' = owner
       /\ repoName' = repoName
       /\ githubBaseBranch' = githubBaseBranch
       /\ activeBranch' # activeBranch =>
            \/ /\ call'.mode = "set_active_branch"
               /\ call'.lastErr = Nil
               /\ call'.arg \in refs
               /\ activeBranch' = call'.arg
               /\ ret'.err = Nil
            \/ /\ call'.mode = "create_branch"
               /\ call'.lastErr = Nil
               /\ activeBranch' \in refs' \ refs
               /\ ret'.err = Nil
               /\ pc' = "idle"]_vars

\* the active branch changed by a CreateBranch that took a versioned name
C27_Witness ==
    /\ call.mode = "create_branch"
    /\ pc = "idle"
    /\ call.active0 = BaseBranchName
    /\ activeBranch = VersionedName(call.arg, 2)
    /\ owner = "o" /\ repoName = "r" /\ githubBaseBranch = BaseBranchName

\* the active branch changed by a SetActiveBranch
C27_WitnessSwitch ==
    /\ call.mode = "set_active_branch"
    /\ call.active0 = BaseBranchName
    /\ activeBranch = "p"

\* the files of the base branch are those the file operation started with
BaseBranchUntouched ==
    \A k \in DOMAIN files \cup DOMAIN call.files0 :
        k[1] = githubBaseBranch =>
            /\ k \in DOMAIN files /\ k \in DOMAIN call.files0
            /\ files[k] = call.files0[k]

\* the files of the branches that existed, other than the branch compared
\* against the base branch, are those the file operation started with
OnlyCheckedBranchWritten ==
    \A k \in DOMAIN files \cup DOMAIN call.files0 :
        (k[1] \in call.refs0 /\ k[1] # call.active0) =>
            /\ k \in DOMAIN files /\ k \in DOMAIN call.files0
            /\ files[k] = call.files0[k]

\* C28: when SetActiveBranch or CreateBranch runs concurrently with
\* CreateFile, UpdateFile or DeleteFile on the same wrapper, the branch
\* targeted by the remote write is the branch that was compared against the
\* base branch in the protected-branch check, so in every interleaving no
\* file write targets the base branch.
C28_WriteTargetsCheckedBranch ==
    call.op \in FileOperations => (OnlyCheckedBranchWritten /\ BaseBranchUntouched)

====
